---- MODULE Spec2Model ----
(***************************************************************************)
(* Model of the data-models packer: the package-name resolver              *)
(* (Config.Verify / Config.handleExtensions), the package writer and       *)
(* reader pipelines (PackageWriter, DataPackage.Pack, PackageReader,       *)
(* DecompressingReader).                                                   *)
(*                                                                         *)
(* A file name is a sequence of dot-delimited segments:                     *)
(*   "test.tar.gz"  is  <<"test", "tar", "gz">>,                           *)
(*   ".zip"         is  <<"", "zip">>.                                     *)
(* A path is a sequence of such names, one per path component; the empty   *)
(* path <<>> is the empty string.                                          *)
(***************************************************************************)
EXTENDS Integers, Sequences, FiniteSets, TLC

VARIABLES
    cfg,        \* the Config object handed to Verify / NewPackageWriter / NewPackageReader
    decl,       \* what the user declared on the command line (Comp, KeyPath, PublicKeyEmail)
    err,        \* the error value returned by the last operation ("nil" = no error)
    pc,         \* position of the calling program
    nVerify,    \* number of Verify calls made on cfg so far
    mode,       \* what the program was asked to do: "none", "pack", "unpack"
    exitBy,     \* who ended the process with log.Fatalf ("" while it runs or after a normal return)
    data,       \* the data directory to pack: its files in walk (lexical) order
    pkg,        \* the package file (or STDOUT/STDIN stream): whether it exists and its bytes
    w,          \* the package writer and its chain of writers
    r,          \* the package reader and its chain of readers
    outDir,     \* the directory unpacked into: the files created so far
    fsLog,      \* the files opened, created and closed so far, in order
    env,        \* the process environment on the read path: PACKER_KEYPASS, the passphrase file, the passphrase protecting the private key
    message,    \* the chunks written to the writer Encrypt returned
    plain,      \* the chunks read from the reader Decrypt returned
    flags,      \* the metadata flags: -site, -model, -modelVersion, -dataVersion, -etl, -verifyOnly
    catalog,    \* what the data models service lists: (model, version, tables) in the order of the listing
    m,          \* the Metadata object
    manifest,   \* metadata.csv in the data directory: whether it exists, its header and its rows
    before,     \* the manifest and the data files as the current metadata run found them
    results,    \* the outcomes of the metadata runs that have ended, oldest first
    report      \* what the error message of the last metadata operation names: line, file, field

cryptVars == <<env, message, plain>>

metaVars == <<flags, catalog, m, manifest, before, results, report>>

vars ==
    <<cfg, decl, err, pc, nVerify, mode, exitBy, data, pkg, w, r, outDir, fsLog, env,
      message, plain,
      flags, catalog, m, manifest, before, results, report>>

(***************************************************************************)
(* Bounds.                                                                 *)
(***************************************************************************)
MaxSuffixes == 3
MaxOrderSuffixes == 2
MaxVerify == 2
MaxFiles == 2

(***************************************************************************)
(* Input alphabets.                                                        *)
(***************************************************************************)
\* suffixes a package file name is built from: the recognised ones, one the
\* resolver does not know and an upper-case spelling of a recognised one.
Suffixes == {"gpg", "tar", "bz2", "bzip2", "gz", "gzip", "zip", "csv", "GZ"}

\* first segment of a file name (never classified by the resolver)
Bases == {"test", "gz"}

\* values of the -comp flag
CompFlags == {"", ".zip", ".tar.gz", ".tar.gzip", ".tar.bz2", ".tar.bzip2", ".gz"}

\* values of the -keyPath flag and of the remote key identity
KeyPaths == {"", "key.asc"}
Emails == {"", "testy@test.er"}

\* a directory component that itself carries suffixes
DirName == <<"out", "zip">>

FileNames(k) ==
    UNION { { <<b>> \o s : b \in Bases, s \in [1..n -> Suffixes] } : n \in 0..k }

Paths(k) ==
    { <<n>> : n \in FileNames(k) } \cup { <<DirName, n>> : n \in FileNames(1) }

(***************************************************************************)
(* config.go                                                               *)
(***************************************************************************)
errExtConflict == "errExtConflict"
errNoTar == "errNoTar"
errCfgConflict == "errCfgConflict"
errNoComp == "errNoComp"
errNoKey == "errNoKey"
errNoGpg == "errNoGpg"
errUnexpectedExt == "unexpected file extension"

pkgExtensions == [gpg |-> FALSE, tar |-> FALSE, bz2 |-> FALSE, gz |-> FALSE, zip |-> FALSE]

\* filepath.Base of a non-empty path
Base(path) == path[Len(path)]

\* the switch on name[i+1:j] inside the scanning loop
classify(seg) ==
    CASE seg = "gpg" -> "gpg"
      [] seg = "tar" -> "tar"
      [] seg \in {"bzip2", "bz2"} -> "bz2"
      [] seg \in {"gzip", "gz"} -> "gz"
      [] seg = "zip" -> "zip"
      [] OTHER -> "default"

\* mutant of readExtensions: the default arm skips the segment instead of
\* returning the unexpected-extension error
RECURSIVE readExtensions_skipUnknown(_, _, _)
readExtensions_skipUnknown(name, i, exts) ==
    IF i < 2
    THEN [unexpected |-> FALSE, exts |-> exts]
    ELSE LET c == classify(name[i])
         IN  IF c = "default"
             THEN readExtensions_skipUnknown(name, i - 1, exts)
             ELSE readExtensions_skipUnknown(name, i - 1, [exts EXCEPT ![c] = TRUE])

\* the loop `for i = len(name) - 1; i >= 0; i--`: segment i of the name is
\* the text between two dots (or the last dot and the end) for i >= 2; the
\* first segment has no dot in front of it and is never looked at.
RECURSIVE readExtensions(_, _, _)
readExtensions(name, i, exts) ==
    IF i < 2
    THEN [unexpected |-> FALSE, exts |-> exts]
    ELSE LET c == classify(name[i])
         IN  IF c = "default"
             THEN [unexpected |-> TRUE, exts |-> exts]
             ELSE readExtensions(name, i - 1, [exts EXCEPT ![c] = TRUE])

\* mutant of extConflict: the bz2/zip pair is forgotten
extConflict_noBz2Zip(exts) ==
    (exts.gz /\ exts.bz2) \/ (exts.gz /\ exts.zip)

\* case exts.gz && exts.bz2 || exts.gz && exts.zip || exts.bz2 && exts.zip
extConflict(exts) ==
    (exts.gz /\ exts.bz2) \/ (exts.gz /\ exts.zip) \/ (exts.bz2 /\ exts.zip)

\* mutant of noTar: only gz is required to sit in a tar
noTar_gzOnly(exts) ==
    exts.gz /\ ~exts.tar

\* case exts.gz && !exts.tar || exts.bz2 && !exts.tar
noTar(exts) ==
    (exts.gz /\ ~exts.tar) \/ (exts.bz2 /\ ~exts.tar)

\* mutant of compAccepts: the long spellings are not accepted
compAccepts_noAlias(method) ==
    CASE method = ".tar.gz" -> {"", ".tar.gz"}
      [] method = ".tar.bz2" -> {"", ".tar.bz2"}
      [] method = ".zip" -> {"", ".zip"}

\* the values of cfg.Comp each inferred method accepts
compAccepts(method) ==
    CASE method = ".tar.gz" -> {"", ".tar.gz", ".tar.gzip"}
      [] method = ".tar.bz2" -> {"", ".tar.bz2", ".tar.bzip2"}
      [] method = ".zip" -> {"", ".zip"}

\* the key switch at the end of handleExtensions
keyCheck(c, exts) ==
    CASE c.KeyPath = "" /\ exts.gpg -> errNoKey
      [] c.KeyPath # "" /\ ~exts.gpg -> errNoGpg
      [] OTHER -> "nil"

\* one arm of the resolving switch: conflict with the pre-declared method,
\* or set cfg.Comp and go on to the key switch
resolveTo(c, exts, method) ==
    IF c.Comp \notin compAccepts(method)
    THEN [err |-> errCfgConflict, cfg |-> c]
    ELSE LET c2 == [c EXCEPT !.Comp = method]
         IN  [err |-> keyCheck(c2, exts), cfg |-> c2]

\* handleExtensions: the error returned and the Config as it is left
handleExtensions(c) ==
    LET name == Base(c.PackagePath)
        scan == readExtensions(name, Len(name), pkgExtensions)
        exts == scan.exts
    IN  IF scan.unexpected THEN [err |-> errUnexpectedExt, cfg |-> c]
        ELSE IF extConflict(exts) THEN [err |-> errExtConflict, cfg |-> c]
        ELSE IF noTar(exts) THEN [err |-> errNoTar, cfg |-> c]
        ELSE IF exts.tar /\ exts.gz THEN resolveTo(c, exts, ".tar.gz")
        ELSE IF exts.tar /\ exts.bz2 THEN resolveTo(c, exts, ".tar.bz2")
        ELSE IF exts.zip THEN resolveTo(c, exts, ".zip")
        ELSE [err |-> errNoComp, cfg |-> c]

\* Config.Verify
VerifyResult(c) ==
    IF c.PackagePath # <<>>
    THEN handleExtensions(c)
    ELSE [err |-> "nil", cfg |-> c]


(***************************************************************************)
(* Byte streams.  A stream is a sequence of tokens, each standing for the  *)
(* bytes one layer emits: an OpenPGP message is encHdr(key) ... encEnd, a  *)
(* gzip stream is gzHdr ... gzEnd, a tar archive is tarHdr(name)           *)
(* tarData(content) ... tarEnd, a zip archive is zipHdr(name)              *)
(* zipData(content) ... zipEnd (the central directory).                    *)
(***************************************************************************)
Tok(t, a) == [t |-> t, a |-> a]
encHdr(key) == Tok("encHdr", key)
encEnd == Tok("encEnd", "")
gzHdr == Tok("gzHdr", "")
gzEnd == Tok("gzEnd", "")
tarHdr(name) == Tok("tarHdr", name)
tarData(content) == Tok("tarData", content)
tarEnd == Tok("tarEnd", "")
zipHdr(name) == Tok("zipHdr", name)
zipData(content) == Tok("zipData", content)
zipEnd == Tok("zipEnd", "")
bzHdr == Tok("bzHdr", "")
bzEnd == Tok("bzEnd", "")
junk == Tok("junk", "")

\* key material: the key ring in the -keyPath file (public and private key of
\* the user), the key a key server returns for the remote identity, and the
\* public key compiled into pack.go
userKey == "userKey"
pedsnetDCCPublicKey == "pedsnetDCCPublicKey"

Layers == {"out", "enc", "gzip", "tar", "zip"}

\* a writer chain before anything is opened
NoWriter ==
    [kind |-> "none", order |-> <<>>,
     state |-> [l \in Layers |-> "nil"],
     buf |-> [l \in Layers |-> <<>>],
     gzStarted |-> FALSE, keyReader |-> "nil", key |-> "", next |-> 1,
     closeErr |-> "nil"]

NoReader ==
    [order |-> <<>>, src |-> <<>>, inState |-> "nil", zip |-> FALSE, zipIndex |-> 0,
     zipFiles |-> <<>>, tarReader |-> "nil"]

\* the writer chain and the sink it writes to, taken together while a write
\* or a close runs through the layers
Chain(wr, p) ==
    [order |-> wr.order, state |-> wr.state, buf |-> wr.buf, gzStarted |-> wr.gzStarted,
     bytes |-> p.bytes, werr |-> "nil"]

WriterOf(wr, ch) ==
    [wr EXCEPT !.state = ch.state, !.buf = ch.buf, !.gzStarted = ch.gzStarted]

PkgOf(p, ch) == [p EXCEPT !.bytes = ch.bytes]

errClosed == "file already closed"
errNoSpace == "no space left on device"

\* push(ch, i, toks, fl): Write(toks) on layer ch.order[i], which writes to
\* layer ch.order[i-1].  fl tells, per buffering layer, whether this write
\* fills the layer's buffer so that it passes its buffered bytes on.
\*   out  (os.File):        the bytes reach the file, or the file is closed,
\*                          or the device is full ("full") and the write fails
\*   enc  (openpgp.Encrypt): buffers in partial-length packets
\*   gzip (gzip.Writer):    writes its header on the first Write, buffers the
\*                          compressed bytes
\*   tar  (tar.Writer):     writes through
\*   zip  (zip.Writer):     buffers (bufio)
RECURSIVE push(_, _, _, _)
push(ch, i, toks, fl) ==
    IF ch.werr # "nil" \/ toks = <<>> THEN ch
    ELSE LET l == ch.order[i] IN
      CASE l = "out" ->
             IF ch.state["out"] = "open"
             THEN [ch EXCEPT !.bytes = @ \o toks]
             ELSE IF ch.state["out"] = "full"
             THEN [ch EXCEPT !.werr = errNoSpace]
             ELSE [ch EXCEPT !.werr = errClosed]
        [] l = "tar" -> push(ch, i - 1, toks, fl)
        [] l = "gzip" ->
             LET c1 == IF ch.gzStarted THEN ch
                       ELSE push([ch EXCEPT !.gzStarted = TRUE], i - 1, <<gzHdr>>, fl)
                 c2 == [c1 EXCEPT !.buf["gzip"] = @ \o toks]
             IN  IF c1.werr # "nil" THEN c1
                 ELSE IF fl["gzip"]
                 THEN push([c2 EXCEPT !.buf["gzip"] = <<>>], i - 1, c2.buf["gzip"], fl)
                 ELSE c2
        [] OTHER -> \* enc, zip
             LET c2 == [ch EXCEPT !.buf[l] = @ \o toks]
             IN  IF fl[l]
                 THEN push([c2 EXCEPT !.buf[l] = <<>>], i - 1, c2.buf[l], fl)
                 ELSE c2

FlushAll == [l \in Layers |-> TRUE]
FlushChoices == [Layers -> BOOLEAN]

IndexOf(order, l) == CHOOSE i \in 1..Len(order) : order[i] = l
\* variant of closeLayer: Close marks the layer closed and writes nothing
closeLayer_noFlush(ch, l) ==
    [ch EXCEPT !.state[l] = "closed", !.buf[l] = <<>>]

\* closeLayer(ch, l): Close() of layer l: what is buffered and the layer's
\* trailer go to the layer below; the layer below is not closed.
closeLayer(ch, l) ==
    LET i == IndexOf(ch.order, l)
        none == [x \in Layers |-> FALSE]
    IN  CASE l = "out" ->
               IF ch.state["out"] \in {"open", "full"}
               THEN [ch EXCEPT !.state["out"] = "closed"]
               ELSE [ch EXCEPT !.werr = errClosed]
          [] l = "tar" ->
               LET c == push(ch, i - 1, <<tarEnd>>, none)
               IN  [c EXCEPT !.state["tar"] = "closed"]
          [] l = "gzip" ->
               LET c1 == IF ch.gzStarted THEN ch
                         ELSE push([ch EXCEPT !.gzStarted = TRUE], i - 1, <<gzHdr>>, none)
                   c2 == push([c1 EXCEPT !.buf["gzip"] = <<>>], i - 1,
                              c1.buf["gzip"] \o <<gzEnd>>, none)
               IN  [c2 EXCEPT !.state["gzip"] = "closed"]
          [] l = "enc" ->
               LET c == push([ch EXCEPT !.buf["enc"] = <<>>], i - 1,
                             ch.buf["enc"] \o <<encEnd>>, none)
               IN  [c EXCEPT !.state["enc"] = "closed"]
          [] l = "zip" ->
               LET c == push([ch EXCEPT !.buf["zip"] = <<>>], i - 1,
                             ch.buf["zip"] \o <<zipEnd>>, none)
               IN  [c EXCEPT !.state["zip"] = "closed"]

\* close the layers of ls in order, stopping at the first error
RECURSIVE closeInOrder(_, _)
closeInOrder(ch, ls) ==
    IF ls = <<>> \/ ch.werr # "nil" THEN ch
    ELSE closeInOrder(closeLayer(ch, Head(ls)), Tail(ls))


(***************************************************************************)
(* pack.go: PackageWriter                                                  *)
(***************************************************************************)
Ev(op, f) == <<op, f>>

\* mutant of writerOrder: the compressor writes to the output and the
\* encryption writer is stacked on top of it (encrypt, then compress)
writerOrder_encryptFirst(encOn, comp) ==
    <<"out">> \o (IF comp = ".zip" THEN <<"zip">> ELSE <<"gzip">>)
              \o (IF encOn THEN <<"enc">> ELSE <<>>)
              \o (IF comp = ".zip" THEN <<>> ELSE <<"tar">>)

\* the chain NewPackageWriter and DataPackage.Pack build, from the sink up:
\* the output, the encryption writer on it when there is one, the compressor
\* on the encryption writer if it has been created and on the output if not
writerOrder(encOn, comp) ==
    <<"out">> \o (IF encOn THEN <<"enc">> ELSE <<>>)
              \o (IF comp = ".zip" THEN <<"zip">> ELSE <<"gzip", "tar">>)

\* the key NewPackageWriter encrypts with ("" when it does not encrypt)
encryptionKeyOf(c) ==
    IF c.Comp = ".zip" THEN ""
    ELSE IF c.KeyPath # "" THEN userKey
    ELSE pedsnetDCCPublicKey

\* the switch on cfg.Comp before the compressor is made
writerComp(comp) ==
    CASE comp = "" -> ".tar.gz"
      [] comp = ".tar.gzip" -> ".tar.gz"
      [] comp \in {".tar.bzip2", ".tar.bz2"} -> "bzip2 compression not supported"
      [] comp \in {".zip", ".tar.gz"} -> comp
      [] OTHER -> "unsupported compression method"

\* open the layers of `order` above the output, writing the OpenPGP header
\* when the encryption writer is made
openChain(wr, p, order, key) ==
    LET ch0 == Chain([wr EXCEPT !.order = order, !.state["out"] = "open"], p)
        ch1 == IF key = "" THEN ch0
               ELSE push([ch0 EXCEPT !.state["enc"] = "open"],
                         IndexOf(order, "enc") - 1, <<encHdr(key)>>, FlushAll)
    IN  [ch1 EXCEPT !.state = [l \in Layers |->
             IF l \in {"gzip", "tar", "zip"} /\ \E i \in 1..Len(order) : order[i] = l
             THEN "open" ELSE @[l]]]

\* NewPackageWriter(cfg): the error, the Config, the writer, the package
\* file and the file events it leaves
NewPackageWriter(c, p) ==
    LET created == IF c.PackagePath # <<>> THEN <<Ev("create", "pkg")>> ELSE <<>>
        p1 == [exists |-> TRUE, bytes |-> <<>>]
        w1 == [NoWriter EXCEPT !.kind = "PackageWriter", !.state["out"] = "open"]
        key == encryptionKeyOf(c)
        keyLog == IF c.Comp # ".zip" /\ c.KeyPath # ""
                  THEN <<Ev("open", "key"), Ev("close", "key")>> ELSE <<>>
        comp == writerComp(c.Comp)
        c2 == [c EXCEPT !.Comp = IF c.Comp \in {"", ".tar.gzip"} THEN ".tar.gz" ELSE @]
    IN  IF c.PackagePath # <<>> /\ p.exists
        THEN [err |-> "file exists", cfg |-> c, w |-> NoWriter, pkg |-> p, log |-> <<>>]
        ELSE IF comp \notin {".zip", ".tar.gz"}
        THEN \* returns the error; the output and the encryption writer stay open
             LET order == <<"out">> \o (IF key # "" THEN <<"enc">> ELSE <<>>)
                 ch == openChain(w1, p1, order, key)
             IN  [err |-> comp, cfg |-> c2,
                  w |-> [WriterOf(w1, ch) EXCEPT !.order = order, !.key = key, !.kind = "none"],
                  pkg |-> PkgOf(p1, ch), log |-> created \o keyLog]
        ELSE LET order == writerOrder(key # "", comp)
                 ch == openChain(w1, p1, order, key)
             IN  [err |-> "nil", cfg |-> c2,
                  w |-> [WriterOf(w1, ch) EXCEPT !.order = order, !.key = key],
                  pkg |-> PkgOf(p1, ch), log |-> created \o keyLog]

\* filepath.Ext of the data file names of the model
Ext(name) == IF name = "README.txt" THEN ".txt" ELSE ".csv"

IsCsv(name) == Ext(name) = ".csv"

\* the walk function on one file: header, open, copy, close
packFile(ch, file, fl) ==
    LET top == Len(ch.order)
        c1 == push(ch, top, <<IF "zip" \in {ch.order[i] : i \in 1..top}
                               THEN zipHdr(file.name) ELSE tarHdr(file.name)>>, fl)
    IN  IF c1.werr # "nil" THEN c1
        ELSE push(c1, top, <<IF "zip" \in {ch.order[i] : i \in 1..top}
                             THEN zipData(file.content) ELSE tarData(file.content)>>, fl)

\* PackageWriter.Close: the output, then the encryption writer, then the
\* compressing writer (tar and gzip, or zip), stopping at the first error
packageWriterCloseOrder(wr) ==
    <<"out">> \o (IF wr.state["enc"] # "nil" THEN <<"enc">> ELSE <<>>)
              \o (IF wr.state["zip"] # "nil" THEN <<"zip">> ELSE <<"tar", "gzip">>)


(***************************************************************************)
(* DataPackage.Pack and its helpers                                        *)
(***************************************************************************)
ToLower(seg) ==
    CASE seg = "GPG" -> "gpg"
      [] seg = "GZ" -> "gz"
      [] OTHER -> seg

\* fileNameHasGPG: the path ends in ".gpg", whatever the case
fileNameHasGPG(path) ==
    /\ path # <<>>
    /\ Len(Base(path)) >= 2
    /\ ToLower(Base(path)[Len(Base(path))]) = "gpg"

gpgInUse(c) ==
    c.KeyPath # "" \/ c.PublicKeyEmail # "" \/ fileNameHasGPG(c.PackagePath)

\* encryptionKeyReader: the key read, or the error; netOk tells whether the
\* key server answers
encryptionKeyReader(c, netOk) ==
    IF c.KeyPath # "" THEN [err |-> "nil", key |-> userKey, reader |-> "file"]
    ELSE IF c.PublicKeyEmail # ""
    THEN IF netOk THEN [err |-> "nil", key |-> userKey, reader |-> "http"]
         ELSE [err |-> "error fetching public key", key |-> "", reader |-> "nil"]
    ELSE [err |-> "Either KeyPath or PublicKeyEmail must be specified", key |-> "", reader |-> "nil"]

\* the walk over the data directory: the chain after the files from i on are
\* packed, and the error the walk function returns
RECURSIVE walkPack(_, _, _, _)
walkPack(ch, files, i, fl) ==
    IF i > Len(files) THEN [ch |-> ch, err |-> "nil", log |-> <<>>]
    ELSE IF ~IsCsv(files[i].name) THEN [ch |-> ch, err |-> "non-csv file found", log |-> <<>>]
    ELSE LET c1 == packFile(ch, files[i], fl)
             ev == <<Ev("open", files[i].name), Ev("close", files[i].name)>>
         IN  IF c1.werr # "nil" THEN [ch |-> c1, err |-> c1.werr, log |-> ev]
             ELSE LET rest == walkPack(c1, files, i + 1, fl)
                  IN  [rest EXCEPT !.log = ev \o @]

\* finishPack: tar, gzip, the encryption writer, the output, the key reader
finishPackOrder(wr) ==
    <<"tar", "gzip">> \o (IF wr.state["enc"] # "nil" THEN <<"enc">> ELSE <<>>) \o <<"out">>

\* DataPackage.Pack(dataDirPath): the error returned, the writer, the package
\* file and the file events it leaves; diskOk tells whether the device still
\* has room when finishPack flushes the layers
DataPackagePack(c, p, files, fl, netOk, diskOk) ==
    LET created == IF c.PackagePath # <<>> THEN <<Ev("create", "pkg")>> ELSE <<>>
        p1 == [exists |-> TRUE, bytes |-> <<>>]
        w1 == [NoWriter EXCEPT !.kind = "DataPackage", !.state["out"] = "open", !.order = <<"out">>]
        kr == encryptionKeyReader(c, netOk)
        keyLog == IF kr.reader = "file" THEN <<Ev("open", "key")>> ELSE <<>>
    IN  IF c.PackagePath # <<>> /\ p.exists
        THEN [err |-> "file exists", w |-> NoWriter, pkg |-> p, log |-> <<>>]
        ELSE IF gpgInUse(c) /\ kr.err # "nil"
        THEN [err |-> kr.err, w |-> w1, pkg |-> p1, log |-> created]
        ELSE LET key == IF gpgInUse(c) THEN kr.key ELSE ""
                 order == writerOrder(key # "", ".tar.gz")
                 w2 == [w1 EXCEPT !.keyReader = IF key # "" THEN "open" ELSE "nil",
                                  !.key = key]
                 ch == openChain(w2, p1, order, key)
                 walked == walkPack(ch, files, 1, fl)
                 kLog == IF key # "" THEN keyLog ELSE <<>>
             IN  IF walked.err # "nil"
                 THEN [err |-> walked.err,
                       w |-> [WriterOf(w2, walked.ch) EXCEPT !.order = order],
                       pkg |-> PkgOf(p1, walked.ch),
                       log |-> created \o kLog \o walked.log]
                 ELSE LET atEnd == IF diskOk THEN walked.ch
                                   ELSE [walked.ch EXCEPT !.state["out"] = "full"]
                          fin == closeInOrder(atEnd, finishPackOrder(WriterOf(w2, atEnd)))
                          closedKey == fin.werr = "nil" /\ key # ""
                      IN  [err |-> "nil",
                           w |-> [WriterOf(w2, fin) EXCEPT !.order = order,
                                     !.closeErr = fin.werr,
                                     !.keyReader = IF closedKey THEN "closed" ELSE @],
                           pkg |-> PkgOf(p1, fin),
                           log |-> created \o kLog \o walked.log
                                     \o (IF fin.werr = "nil" /\ c.PackagePath # <<>>
                                         THEN <<Ev("close", "pkg")>> ELSE <<>>)
                                     \o (IF closedKey /\ kr.reader = "file"
                                         THEN <<Ev("close", "key")>> ELSE <<>>)]


(***************************************************************************)
(* unpack.go: PackageReader, DecompressingReader, Decrypt                  *)
(***************************************************************************)
\* bytes.TrimSpace on the passphrases of the model
TrimSpace(s) ==
    CASE s = "secret\n" -> "secret"
      [] s = "secret " -> "secret"
      [] s = "wrong\n" -> "wrong"
      [] OTHER -> s

\* Decrypt on a stream with the user's key ring, whose private key is
\* protected by keyPass ("" when it is not protected): the passphrase read
\* is trimmed and decrypts the private key, then openpgp.ReadMessage wants
\* an OpenPGP message encrypted to a key of the ring
Decrypt(stream, keyPass, passphrase) ==
    IF keyPass # "" /\ TrimSpace(passphrase) # keyPass
    THEN [err |-> "private key checksum failure", src |-> <<>>]
    ELSE IF stream = <<>> THEN [err |-> "EOF", src |-> <<>>]
    ELSE IF Head(stream).t # "encHdr" THEN [err |-> "malformed OpenPGP message", src |-> <<>>]
    ELSE IF Head(stream).a # userKey THEN [err |-> "no key to decrypt message", src |-> <<>>]
    ELSE [err |-> "nil", src |-> Tail(stream)]

\* makeDecryptingReader(reader, cfg): the key ring is opened, then the
\* passphrase file when a path is given, then PACKER_KEYPASS replaces the
\* passphrase reader when it is set, and Decrypt is called.  e is the
\* environment: the variable, the passphrase file, the key's protection.
makeDecryptingReader(stream, c, e) ==
    LET keyLog == <<Ev("open", "key")>>
        passLog == IF c.KeyPassPath # "" THEN <<Ev("open", "keypass")>> ELSE <<>>
        fromFile == IF c.KeyPassPath # "" THEN e.passFile.content ELSE ""
        passphrase == IF e.PACKER_KEYPASS # "" THEN e.PACKER_KEYPASS ELSE fromFile
        dec == Decrypt(stream, e.keyPass, passphrase)
    IN  IF c.KeyPassPath # "" /\ ~e.passFile.exists
        THEN [err |-> "no such file", src |-> <<>>,
              log |-> keyLog \o <<Ev("close", "key")>>]
        ELSE [err |-> dec.err, src |-> dec.src,
              log |-> keyLog \o passLog
                        \o (IF c.KeyPassPath # "" THEN <<Ev("close", "keypass")>> ELSE <<>>)
                        \o <<Ev("close", "key")>>]

\* the entries of a complete zip archive, a sequence of [name, content]
RECURSIVE zipEntries(_)
zipEntries(toks) ==
    IF Len(toks) < 2 THEN <<>>
    ELSE <<[name |-> toks[1].a, content |-> toks[2].a]>> \o zipEntries(Tail(Tail(toks)))

\* zip.NewReader wants the whole input to be a zip archive ending in its
\* central directory
IsZipArchive(toks) ==
    /\ toks # <<>>
    /\ toks[Len(toks)] = zipEnd
    /\ Len(toks) % 2 = 1
    /\ \A i \in 1..(Len(toks) - 1) :
          toks[i].t = IF i % 2 = 1 THEN "zipHdr" ELSE "zipData"

\* NewDecompressingReader(compressedReader, comp, inputPath): the error, or
\* the reader: zip and the zip files, or the tar reader and what it reads
\* from ("nil" when the switch on comp has no case for it)
NewDecompressingReader(src, comp, inputPath, isReaderAt) ==
    CASE comp = ".zip" ->
           IF ~isReaderAt
           THEN [err |-> "failed to assert io.ReaderAt type on reader", zip |-> TRUE,
                 zipFiles |-> <<>>, tarReader |-> "nil", src |-> src, layers |-> <<>>]
           ELSE IF inputPath = <<>>
           THEN [err |-> "stat: no such file", zip |-> TRUE,
                 zipFiles |-> <<>>, tarReader |-> "nil", src |-> src, layers |-> <<>>]
           ELSE IF ~IsZipArchive(src)
           THEN [err |-> "zip: not a valid zip file", zip |-> TRUE,
                 zipFiles |-> <<>>, tarReader |-> "nil", src |-> src, layers |-> <<>>]
           ELSE [err |-> "nil", zip |-> TRUE,
                 zipFiles |-> zipEntries(SubSeq(src, 1, Len(src) - 1)),
                 tarReader |-> "nil", src |-> <<>>, layers |-> <<"unzip">>]
      [] comp = ".tar.bz2" ->
           [err |-> "nil", zip |-> FALSE, zipFiles |-> <<>>, tarReader |-> "bzip2",
            src |-> src, layers |-> <<"bunzip2", "untar">>]
      [] comp = ".tar.gz" ->
           IF src = <<>> \/ Head(src) # gzHdr
           THEN [err |-> "gzip: invalid header", zip |-> FALSE, zipFiles |-> <<>>,
                 tarReader |-> "nil", src |-> src, layers |-> <<>>]
           ELSE [err |-> "nil", zip |-> FALSE, zipFiles |-> <<>>, tarReader |-> "gzip",
                 src |-> Tail(src), layers |-> <<"gunzip", "untar">>]
      [] OTHER ->
           [err |-> "nil", zip |-> FALSE, zipFiles |-> <<>>, tarReader |-> "nil",
            src |-> src, layers |-> <<>>]

\* NewPackageReader(cfg): the error, the reader and the file events; e is the
\* environment makeDecryptingReader finds
NewPackageReader(c, p, e) ==
    LET opened == IF c.PackagePath # <<>> THEN <<Ev("open", "pkg")>> ELSE <<>>
        dec == IF c.KeyPath # "" THEN makeDecryptingReader(p.bytes, c, e)
               ELSE [err |-> "nil", src |-> p.bytes, log |-> <<>>]
        keyLog == dec.log
        r1 == [NoReader EXCEPT !.inState = "open"]
        d == NewDecompressingReader(dec.src, c.Comp, c.PackagePath, c.KeyPath = "")
    IN  IF c.PackagePath # <<>> /\ ~p.exists
        THEN [err |-> "no such file", r |-> NoReader, log |-> <<>>]
        ELSE IF dec.err # "nil"
        THEN [err |-> dec.err, r |-> r1, log |-> opened \o keyLog]
        ELSE IF d.err # "nil"
        THEN [err |-> d.err, r |-> r1, log |-> opened \o keyLog]
        ELSE [err |-> "nil",
              r |-> [r1 EXCEPT !.order = <<"in">> \o (IF c.KeyPath # "" THEN <<"dec">> ELSE <<>>)
                                             \o d.layers,
                               !.src = d.src, !.zip = d.zip, !.zipFiles = d.zipFiles,
                               !.tarReader = d.tarReader],
              log |-> opened \o keyLog]

\* tar.Reader.Next on what is left of the decompressed stream: a header, the
\* end of the archive, or an error
tarNext(rd) ==
    IF rd.src = <<>> THEN [res |-> "error", name |-> "", src |-> <<>>]
    ELSE LET t == Head(rd.src) IN
         CASE t.t = "tarHdr" -> [res |-> "header", name |-> t.a, src |-> Tail(rd.src)]
           [] t \in {tarEnd, gzEnd, bzEnd} -> [res |-> "EOF", name |-> "", src |-> rd.src]
           [] OTHER -> [res |-> "error", name |-> "", src |-> rd.src]

\* the bzip2 reader reads its header on the first read
bzStart(rd) ==
    IF rd.tarReader = "bzip2" /\ rd.src # <<>> /\ Head(rd.src) = bzHdr
    THEN [rd EXCEPT !.src = Tail(@), !.tarReader = "bzip2 started"]
    ELSE rd

\* DecompressingReader.Next: "header", "EOF", "error", or "fatal" when the
\* deferred recover catches a panic and calls log.Fatalf
DecompressingReaderNext(rd) ==
    IF rd.zip
    THEN IF rd.zipIndex + 1 <= Len(rd.zipFiles)
         THEN [res |-> "header", name |-> rd.zipFiles[rd.zipIndex + 1].name,
               rd |-> [rd EXCEPT !.zipIndex = @ + 1]]
         ELSE [res |-> "EOF", name |-> "", rd |-> [rd EXCEPT !.zipIndex = @ + 1]]
    ELSE IF rd.tarReader = "nil"
    THEN [res |-> "fatal", name |-> "", rd |-> rd]
    ELSE LET r1 == bzStart(rd)
             n == tarNext(r1)
         IN  IF r1.tarReader = "bzip2"
             THEN [res |-> "error", name |-> "", rd |-> r1]
             ELSE [res |-> n.res, name |-> n.name, rd |-> [r1 EXCEPT !.src = n.src]]

\* io.Copy(file, r): the content of the current entry, or an error
copyEntry(rd) ==
    IF rd.zip
    THEN [err |-> "nil", content |-> rd.zipFiles[rd.zipIndex].content, rd |-> rd]
    ELSE IF rd.src # <<>> /\ Head(rd.src).t = "tarData"
    THEN [err |-> "nil", content |-> Head(rd.src).a, rd |-> [rd EXCEPT !.src = Tail(@)]]
    ELSE [err |-> "unexpected EOF", content |-> "", rd |-> rd]

(***************************************************************************)
(* The calling program around Verify.                                      *)
(***************************************************************************)
NewConfig(comp, keyPath, email, path) ==
    [Comp |-> comp, DataDirPath |-> "data", KeyPassPath |-> "",
     KeyPath |-> keyPath, PublicKeyEmail |-> email, PackagePath |-> path]

Declared(c) ==
    [Comp |-> c.Comp, KeyPath |-> c.KeyPath, PublicKeyEmail |-> c.PublicKeyEmail]

\* cfg.Verify() as main calls it
Verify ==
    /\ pc = "set"
    /\ LET res == VerifyResult(cfg)
       IN  /\ cfg' = res.cfg
           /\ err' = res.err
    /\ pc' = "verified"
    /\ nVerify' = nVerify + 1
    /\ UNCHANGED <<decl, mode, exitBy, data, pkg, w, r, outDir, fsLog, cryptVars, metaVars>>

\* cfg.PackagePath = out (or inputs[0]) before another Verify on the same Config
SetPackagePath ==
    /\ pc = "verified"
    /\ nVerify < MaxVerify
    /\ \E p \in Paths(MaxOrderSuffixes) :
          cfg' = [cfg EXCEPT !.PackagePath = p]
    /\ pc' = "set"
    /\ UNCHANGED <<decl, err, nVerify, mode, exitBy, data, pkg, w, r, outDir, fsLog, cryptVars, metaVars>>

NoPackage == [exists |-> FALSE, bytes |-> <<>>]

\* PACKER_KEYPASS unset, no passphrase file, an unprotected private key
NoEnv ==
    [PACKER_KEYPASS |-> "", passFile |-> [exists |-> FALSE, content |-> ""], keyPass |-> ""]

\* nothing has been encrypted or decrypted by itself
CryptIdle ==
    /\ env = NoEnv
    /\ message = <<>>
    /\ plain = <<>>

NoFlags ==
    [Site |-> "", Model |-> "", ModelVersion |-> "", DataVersion |-> "", Etl |-> "",
     verifyOnly |-> FALSE]

NoMetadata ==
    [site |-> "", model |-> "", modelVersion |-> "", dataVersion |-> "", etl |-> "",
     serviceModels |-> <<>>, header |-> <<>>, recordMaps |-> <<>>]

NoManifest == [exists |-> FALSE, header |-> <<>>, rows |-> <<>>]

NoReport == [line |-> "", file |-> "", field |-> ""]

\* no metadata operation has run
MetaIdle ==
    /\ flags = NoFlags
    /\ catalog = <<>>
    /\ m = NoMetadata
    /\ manifest = NoManifest
    /\ before = [manifest |-> NoManifest, data |-> <<>>]
    /\ results = <<>>
    /\ report = NoReport

\* nothing packed or unpacked yet: no writer, no reader, no file touched
Idle ==
    /\ mode = "none"
    /\ exitBy = ""
    /\ data = <<>>
    /\ pkg = NoPackage
    /\ w = NoWriter
    /\ r = NoReader
    /\ outDir = {}
    /\ fsLog = <<>>
    /\ CryptIdle
    /\ MetaIdle

\* the flags parsed, the package path assigned, Verify not yet called
InitVerify ==
    /\ \E comp \in CompFlags, k \in KeyPaths, e \in Emails, p \in Paths(MaxSuffixes) :
          cfg = NewConfig(comp, k, e, p)
    /\ decl = Declared(cfg)
    /\ err = "nil"
    /\ pc = "set"
    /\ nVerify = 0
    /\ Idle

NextVerify == Verify

SpecVerify == InitVerify /\ [][NextVerify]_vars

InitOrder ==
    /\ \E comp \in CompFlags, k \in KeyPaths, e \in Emails, p \in Paths(MaxOrderSuffixes) :
          cfg = NewConfig(comp, k, e, p)
    /\ decl = Declared(cfg)
    /\ err = "nil"
    /\ pc = "set"
    /\ nVerify = 0
    /\ Idle

NextOrder == Verify \/ SetPackagePath

SpecOrder == InitOrder /\ [][NextOrder]_vars

(***************************************************************************)
(* The programs: main of cmd/packer packing a directory or unpacking a     *)
(* package file or STDIN, and a caller of DataPackage.Pack.                *)
(***************************************************************************)
\* the names of the files of a data directory, in the order filepath.Walk
\* visits them, and their contents
DataNames == <<"README.txt", "datafile1.csv", "datafile2.csv">>
Contents == {"A test message", ""}

RECURSIVE pick(_, _)
pick(names, sel) ==
    IF names = <<>> THEN <<>>
    ELSE (IF Head(names) \in sel THEN <<Head(names)>> ELSE <<>>) \o pick(Tail(names), sel)

\* the data directories of at most k files
DataDirs(k) ==
    UNION { { [i \in 1..Len(pick(DataNames, sel)) |->
                 [name |-> pick(DataNames, sel)[i], content |-> cs[i]]] :
              cs \in [1..Cardinality(sel) -> Contents] } :
            sel \in { x \in SUBSET { DataNames[i] : i \in 1..Len(DataNames) } :
                        Cardinality(x) <= k } }

\* the files of a directory as a set of [name, content]
FilesOf(files) == { files[i] : i \in 1..Len(files) }

\* values of the -out flag and of the input path
PackPaths ==
    {<<>>} \cup { <<DirName, n>> : n \in
        { <<"test", "tar", "gz">>, <<"test", "tar", "gz", "gpg">>, <<"test", "zip">>,
          <<"test", "zip", "gpg">>, <<"test", "tar", "bz2">>, <<"test", "tar">>,
          <<"test", "tar", "gzip", "GPG">> } }

\* what a package file or STDIN can hold before anything is packed
InputStreams ==
    { <<>>,
      <<junk>>,
      <<gzHdr>>,
      <<gzHdr, tarHdr("datafile1.csv"), tarData("A test message"), tarEnd, gzEnd>>,
      <<bzHdr, tarHdr("datafile1.csv"), tarData(""), tarEnd, bzEnd>>,
      <<encHdr(userKey), gzHdr, tarHdr("datafile1.csv")>>,
      <<encHdr(pedsnetDCCPublicKey), gzHdr, tarEnd, gzEnd, encEnd>>,
      <<zipHdr("datafile1.csv"), zipData("A test message"), zipEnd>>,
      <<zipHdr("datafile1.csv"), zipData("A test message")>>,
      <<gzHdr, tarHdr("../datafile2.csv"), tarData("A test message"), tarEnd, gzEnd>>,
      <<gzHdr, tarHdr("/abs/datafile2.csv"), tarData(""), tarEnd, gzEnd>>,
      <<zipHdr("sub/../datafile1.csv"), zipData("A test message"), zipEnd>> }

\* what the directory unpacked into may hold before the run
ExistingFiles == { {}, {[name |-> "datafile1.csv", content |-> "old content"]} }

\* the flags parsed; a data directory and no package, or a package (a file
\* or what STDIN holds) and a directory to unpack into
Init ==
    /\ \E comp \in CompFlags, k \in KeyPaths, e \in Emails :
          cfg = NewConfig(comp, k, e, <<>>)
    /\ decl = Declared(cfg)
    /\ err = "nil"
    /\ pc = "start"
    /\ nVerify = 0
    /\ mode = "none"
    /\ exitBy = ""
    /\ \/ data \in DataDirs(MaxFiles) /\ pkg = NoPackage /\ outDir = {}
       \/ /\ data = <<>>
          /\ \E b \in InputStreams : pkg = [exists |-> TRUE, bytes |-> b]
          /\ outDir \in ExistingFiles
    /\ w = NoWriter
    /\ r = NoReader
    /\ fsLog = <<>>
    /\ CryptIdle
    /\ MetaIdle

\* main, the input path is a directory: cfg.PackagePath = out
MainPack ==
    /\ pc = "start"
    /\ ~pkg.exists
    /\ \E out \in PackPaths : cfg' = [cfg EXCEPT !.PackagePath = out]
    /\ mode' = "pack"
    /\ pc' = "set"
    /\ UNCHANGED <<decl, err, nVerify, exitBy, data, pkg, w, r, outDir, fsLog, cryptVars, metaVars>>

\* main, no input or a file as input: a package is unpacked, either one
\* found there or the one packed before, by a new process with the same
\* -comp flag and with or without the key ring
MainUnpack ==
    /\ \/ pc = "start" /\ pkg.exists
          /\ \E path \in PackPaths :
                cfg' = NewConfig(decl.Comp, decl.KeyPath, decl.PublicKeyEmail, path)
       \/ pc = "packed"
          /\ \E k \in KeyPaths :
                cfg' = NewConfig(decl.Comp, k, decl.PublicKeyEmail, cfg.PackagePath)
    /\ decl' = Declared(cfg')
    /\ mode' = "unpack"
    /\ pc' = "set"
    /\ nVerify' = 0
    /\ err' = "nil"
    /\ UNCHANGED <<exitBy, data, pkg, w, r, outDir, fsLog, cryptVars, metaVars>>

\* main: log.Fatalf on the error of Verify
ConfigError ==
    /\ pc = "verified"
    /\ mode # "none"
    /\ err # "nil"
    /\ pc' = "exited"
    /\ exitBy' = "main"
    /\ UNCHANGED <<cfg, decl, err, nVerify, mode, data, pkg, w, r, outDir, fsLog, cryptVars, metaVars>>

\* main: NewPackageWriter(cfg), log.Fatalf on its error
MakeWriter ==
    /\ pc = "verified"
    /\ mode = "pack"
    /\ err = "nil"
    /\ LET res == NewPackageWriter(cfg, pkg)
       IN  /\ cfg' = res.cfg
           /\ w' = res.w
           /\ pkg' = res.pkg
           /\ fsLog' = fsLog \o res.log
           /\ err' = res.err
           /\ pc' = IF res.err = "nil" THEN "packing" ELSE "exited"
           /\ exitBy' = IF res.err = "nil" THEN exitBy ELSE "main"
    /\ UNCHANGED <<decl, nVerify, mode, data, r, outDir, cryptVars, metaVars>>

\* the flush choices that differ on the buffering layers only
BufferChoices == { fl \in FlushChoices : ~fl["out"] /\ ~fl["tar"] }

\* PackageWriter.Pack, one file of the walk: log.Fatalf in main on the error
PackFile ==
    /\ pc = "packing"
    /\ w.next <= Len(data)
    /\ LET file == data[w.next] IN
       IF ~IsCsv(file.name)
       THEN /\ err' = "non-csv file found"
            /\ pc' = "exited"
            /\ exitBy' = "main"
            /\ UNCHANGED <<w, pkg, fsLog>>
       ELSE \E fl \in BufferChoices :
              LET ch == packFile(Chain(w, pkg), file, fl)
              IN  /\ w' = [WriterOf(w, ch) EXCEPT !.next = @ + 1]
                  /\ pkg' = PkgOf(pkg, ch)
                  /\ fsLog' = fsLog \o <<Ev("open", file.name), Ev("close", file.name)>>
                  /\ err' = ch.werr
                  /\ pc' = IF ch.werr = "nil" THEN "packing" ELSE "exited"
                  /\ exitBy' = IF ch.werr = "nil" THEN exitBy ELSE "main"
    /\ UNCHANGED <<cfg, decl, nVerify, mode, data, r, outDir, cryptVars, metaVars>>

\* Pack returns nil and main returns: the deferred packageWriter.Close()
\* runs and its error is dropped
PackDone ==
    /\ pc = "packing"
    /\ w.next > Len(data)
    /\ LET ch == closeInOrder(Chain(w, pkg), packageWriterCloseOrder(w))
       IN  /\ w' = [WriterOf(w, ch) EXCEPT !.closeErr = ch.werr]
           /\ pkg' = PkgOf(pkg, ch)
           /\ fsLog' = fsLog \o (IF cfg.PackagePath # <<>> THEN <<Ev("close", "pkg")>> ELSE <<>>)
    /\ pc' = "packed"
    /\ UNCHANGED <<cfg, decl, err, nVerify, mode, exitBy, data, r, outDir, cryptVars, metaVars>>

\* a program that sets PackagePath and calls DataPackage.Pack on the data
\* directory
LibPack ==
    /\ pc = "start"
    /\ ~pkg.exists
    /\ \E out \in PackPaths, fl \in BufferChoices, netOk \in BOOLEAN, diskOk \in BOOLEAN :
          LET c == [cfg EXCEPT !.PackagePath = out]
              res == DataPackagePack(c, pkg, data, fl, netOk, diskOk)
          IN  /\ cfg' = c
              /\ w' = res.w
              /\ pkg' = res.pkg
              /\ fsLog' = fsLog \o res.log
              /\ err' = res.err
              /\ pc' = IF res.err = "nil" THEN "packed" ELSE "packFailed"
    /\ mode' = "pack"
    /\ UNCHANGED <<decl, nVerify, exitBy, data, r, outDir, cryptVars, metaVars>>

\* main: NewPackageReader(cfg), log.Fatalf on its error
MakeReader ==
    /\ pc = "verified"
    /\ mode = "unpack"
    /\ err = "nil"
    /\ LET res == NewPackageReader(cfg, pkg, env)
       IN  /\ r' = res.r
           /\ fsLog' = fsLog \o res.log
           /\ err' = res.err
           /\ pc' = IF res.err = "nil" THEN "reading" ELSE "exited"
           /\ exitBy' = IF res.err = "nil" THEN exitBy ELSE "main"
    /\ UNCHANGED <<cfg, decl, nVerify, mode, data, pkg, w, outDir, cryptVars, metaVars>>

\* an entry name split at the separators
entrySegments(name) ==
    CASE name = "../datafile2.csv" -> <<"..", "datafile2.csv">>
      [] name = "/abs/datafile2.csv" -> <<"", "abs", "datafile2.csv">>
      [] name = "sub/../datafile1.csv" -> <<"sub", "..", "datafile1.csv">>
      [] OTHER -> <<name>>

\* filepath.Clean on the segments of a relative path: empty and `.` segments
\* go, `..` removes the segment before it and stays when there is none
RECURSIVE cleanSegments(_, _)
cleanSegments(done, rest) ==
    IF rest = <<>> THEN done
    ELSE IF Head(rest) \in {"", "."} THEN cleanSegments(done, Tail(rest))
    ELSE IF Head(rest) = ".."
    THEN IF done # <<>> /\ done[Len(done)] # ".."
         THEN cleanSegments(SubSeq(done, 1, Len(done) - 1), Tail(rest))
         ELSE cleanSegments(Append(done, ".."), Tail(rest))
    ELSE cleanSegments(Append(done, Head(rest)), Tail(rest))

\* filepath.Join(r.dataDirPath, fileHeader.Name), as segments
filePathOf(dir, name) == cleanSegments(<<>>, <<dir>> \o entrySegments(name))

\* filepath.Dir(filePath)
fileDirOf(path) == SubSeq(path, 1, Len(path) - 1)

\* variant of targetExists: the open is not exclusive
targetExists_never(dir, name) == FALSE

\* os.OpenFile with O_CREATE|O_EXCL fails when the path exists
targetExists(dir, name) ==
    \E f \in dir : filePathOf(cfg.DataDirPath, f.name) = filePathOf(cfg.DataDirPath, name)

\* the deferred file.Close() calls of Unpack, run when it returns: the files
\* it created, last first
deferredCloses(log) ==
    LET made == SelectSeq(log, LAMBDA e : e[1] = "create" /\ e[2] # "pkg")
    IN  [i \in 1..Len(made) |-> Ev("close", made[Len(made) + 1 - i][2])]

\* PackageReader.Unpack, one turn of its loop: Next, then the file is
\* created and the entry copied into it; the files are closed when Unpack
\* returns
UnpackEntry ==
    /\ pc = "reading"
    /\ LET n == DecompressingReaderNext(r)
           cp == copyEntry(n.rd)
       IN  CASE n.res = "fatal" ->
                  /\ pc' = "exited"
                  /\ exitBy' = "DecompressingReader.Next"
                  /\ UNCHANGED <<r, err, outDir, fsLog>>
             [] n.res = "EOF" ->
                  /\ pc' = "unpacked"
                  /\ r' = [n.rd EXCEPT !.inState = "closed"]
                  /\ fsLog' = fsLog \o deferredCloses(fsLog)
                                    \o (IF cfg.PackagePath # <<>>
                                         THEN <<Ev("close", "pkg")>> ELSE <<>>)
                  /\ UNCHANGED <<err, exitBy, outDir>>
             [] n.res = "error" ->
                  /\ pc' = "exited"
                  /\ exitBy' = "main"
                  /\ err' = "error writing unpacked package"
                  /\ r' = n.rd
                  /\ fsLog' = fsLog \o deferredCloses(fsLog)
                  /\ UNCHANGED outDir
             [] n.res = "header" ->
                  IF targetExists(outDir, n.name)
                  THEN /\ pc' = "exited"
                       /\ exitBy' = "main"
                       /\ err' = "file exists"
                       /\ r' = n.rd
                       /\ fsLog' = fsLog \o deferredCloses(fsLog)
                       /\ UNCHANGED outDir
                  ELSE /\ outDir' = { f \in outDir : f.name # n.name }
                                         \cup {[name |-> n.name, content |-> cp.content]}
                       /\ fsLog' = LET made == fsLog
                                         \o <<Ev("mkdir", fileDirOf(filePathOf(cfg.DataDirPath, n.name))),
                                              Ev("create", n.name)>>
                                   IN  IF cp.err = "nil" THEN made
                                       ELSE made \o deferredCloses(made)
                       /\ r' = cp.rd
                       /\ err' = IF cp.err = "nil" THEN err ELSE cp.err
                       /\ pc' = IF cp.err = "nil" THEN "reading" ELSE "exited"
                       /\ exitBy' = IF cp.err = "nil" THEN exitBy ELSE "main"
    /\ UNCHANGED <<cfg, decl, nVerify, mode, data, pkg, w, cryptVars, metaVars>>

Next ==
    \/ MainPack
    \/ MainUnpack
    \/ Verify
    \/ ConfigError
    \/ MakeWriter
    \/ PackFile
    \/ PackDone
    \/ LibPack
    \/ MakeReader
    \/ UnpackEntry

Spec == Init /\ [][Next]_vars


(***************************************************************************)
(* metadata.go: the manifest metadata.csv, NewMetadata, readData           *)
(***************************************************************************)
MaxRuns == 2

canonicalHeader ==
    <<"organization", "filename", "checksum", "cdm", "cdm-version", "table", "etl",
      "data-version">>

CanonicalFields == { canonicalHeader[i] : i \in 1..Len(canonicalHeader) }

headerReq == [h \in CanonicalFields |-> h \notin {"cdm-version", "data-version"}]

RequiredFields == { h \in CanonicalFields : headerReq[h] }

\* strings.ToLower on the header fields and record values of the model
LowerOf(s) ==
    CASE s = "Checksum" -> "checksum"
      [] s = "PEDSNET" -> "pedsnet"
      [] s = "E3B0C442" -> "e3b0c442"
      [] OTHER -> s

\* hex.EncodeToString of the SHA-256 digest of a file content
Sum(content) ==
    CASE content = "" -> "e3b0c442"
      [] content = "A test message" -> "c0719e9a"

\* string(line): the conversion of the integer line to a string gives the
\* character with that code point, written here U+0001, U+0002, ...
RuneString(n) ==
    CASE n = 1 -> "U+0001"
      [] n = 2 -> "U+0002"
      [] n = 3 -> "U+0003"
      [] n = 4 -> "U+0004"
      [] n = 5 -> "U+0005"
      [] OTHER -> "U+00.."

\* a map lookup: the zero value for a key that is not in the map
Get(rm, k) == IF k \in DOMAIN rm THEN rm[k] ELSE ""

\* sort.StringSlice.Sort on version strings: the versions of the model in
\* lexical order
VersionOrder == <<"1.0.0", "2.0.0", "2.1.0">>

SortVersions(vs) ==
    pick(VersionOrder, { vs[i] : i \in 1..Len(vs) })

\* the listings of the data models service: the same models and versions,
\* listed in one order or another
pedsnet20 == [Name |-> "pedsnet", Version |-> "2.0.0", Tables |-> <<"person">>]
pedsnet21 == [Name |-> "pedsnet", Version |-> "2.1.0", Tables |-> <<"person", "visit">>]
i2b2 == [Name |-> "i2b2", Version |-> "1.0.0", Tables |-> <<"person">>]

Catalogs == { <<pedsnet20, pedsnet21, i2b2>>, <<pedsnet21, pedsnet20, i2b2>> }

ModelNames(cat) == { cat[i].Name : i \in 1..Len(cat) }

\* the versions of a model in the order of the listing
RECURSIVE listed(_, _)
listed(cat, model) ==
    IF cat = <<>> THEN <<>>
    ELSE (IF Head(cat).Name = model THEN <<Head(cat).Version>> ELSE <<>>)
            \o listed(Tail(cat), model)

\* the serviceModels map NewMetadata builds from the listing
serviceModelsOf(cat) ==
    [model \in ModelNames(cat) |->
        [sorted |-> listed(cat, model),
         tables |-> [v \in { cat[i].Version : i \in { j \in 1..Len(cat) : cat[j].Name = model } } |->
                        (CHOOSE e \in { cat[i] : i \in 1..Len(cat) } :
                            e.Name = model /\ e.Version = v).Tables]]]

\* the tables of a model version, empty when the map has no such entry
TablesOf(sm, model, version) ==
    IF model \in DOMAIN sm /\ version \in DOMAIN sm[model].tables
    THEN sm[model].tables[version] ELSE <<>>

Last(seq) == seq[Len(seq)]

\* the models the range loop of NewMetadata visits before it breaks: the
\* iteration order `iter` of the map up to and including the model sought
RECURSIVE visited(_, _)
visited(iter, model) ==
    IF iter = <<>> THEN {}
    ELSE IF Head(iter) = model THEN {model}
    ELSE {Head(iter)} \cup visited(Tail(iter), model)

\* NewMetadata(cfg): the error and the Metadata object; iter is the order in
\* which the range loop visits the serviceModels map
NewMetadata(fl, cat, iter) ==
    LET sm0 == serviceModelsOf(cat)
        model == LowerOf(fl.Model)
        seen == IF model = "" THEN {} ELSE visited(iter, model)
        sm == [x \in DOMAIN sm0 |->
                 IF x \in seen THEN [sm0[x] EXCEPT !.sorted = SortVersions(@)] ELSE sm0[x]]
        mFound == model \in DOMAIN sm
        version == IF mFound /\ LowerOf(fl.ModelVersion) = ""
                   THEN Last(sm[model].sorted) ELSE LowerOf(fl.ModelVersion)
        vFound == mFound /\ \E i \in 1..Len(sm[model].sorted) : sm[model].sorted[i] = version
        m1 == [NoMetadata EXCEPT !.site = fl.Site, !.model = model, !.modelVersion = version,
                                 !.dataVersion = LowerOf(fl.DataVersion), !.etl = fl.Etl,
                                 !.serviceModels = sm]
    IN  IF model # "" /\ (~mFound \/ ~vFound)
        THEN [err |-> "model version not found in data models service", m |-> NoMetadata]
        ELSE [err |-> "nil", m |-> m1]

\* the orders in which a range loop can visit the models of the map
IterOrders(cat) ==
    { o \in [1..Cardinality(ModelNames(cat)) -> ModelNames(cat)] :
        \A i, j \in DOMAIN o : i # j => o[i] # o[j] }

\* the fields of the header after strings.ToLower
loweredHeader(header) == [i \in 1..Len(header) |-> LowerOf(header[i])]

\* the header values that are not canonical, in header order
unexpectedValues(header) ==
    { i \in 1..Len(header) : LowerOf(header[i]) \notin CanonicalFields }
\* variant of missingRequired: the header is never found to lack a field
missingRequired_none(header) == {}

\* the required fields the header lacks
missingRequired(header) ==
    RequiredFields \ { LowerOf(header[i]) : i \in 1..Len(header) }

\* one record map: the values under the header's fields, lower-cased but for
\* organization, filename and etl, and the line under "line"
recordMapOf(header, row, line) ==
    [k \in { header[i] : i \in 1..Len(header) } \cup {"line"} |->
        IF k = "line" THEN RuneString(line)
        ELSE LET i == CHOOSE j \in 1..Len(header) :
                         header[j] = k /\ \A j2 \in (j + 1)..Len(header) : header[j2] # k
             IN  IF k \in {"organization", "filename", "etl"} THEN row[i] ELSE LowerOf(row[i])]

\* readData(r) on the manifest mf: the error, what its message names, and
\* the header and record maps left on the Metadata object.  named is the
\* missing required field the range over headerReq comes to first.
readData(mf, named) ==
    LET hdr == loweredHeader(mf.header)
        bad == unexpectedValues(mf.header)
        first == CHOOSE i \in bad : \A j \in bad : i <= j
    IN  IF mf.header = <<>>
        THEN [err |-> "EOF", report |-> NoReport, header |-> <<>>, recordMaps |-> <<>>]
        ELSE IF bad # {}
        THEN [err |-> "unexpected header value",
              report |-> [NoReport EXCEPT !.field = mf.header[first]],
              header |-> hdr, recordMaps |-> <<>>]
        ELSE IF missingRequired(mf.header) # {}
        THEN [err |-> "missing required header value",
              report |-> [NoReport EXCEPT !.field = named],
              header |-> hdr, recordMaps |-> <<>>]
        ELSE [err |-> "nil", report |-> NoReport, header |-> hdr,
              recordMaps |-> [i \in 1..Len(mf.rows) |-> recordMapOf(hdr, mf.rows[i], i + 1)]]

\* the choices the range over headerReq leaves for the field named
namedChoices(missing) == IF missing = {} THEN {""} ELSE missing

(***************************************************************************)
(* metadata.go: Metadata.Check and Metadata.Make                           *)
(***************************************************************************)
\* the required fields a record has no value for
emptyRequired(rm) == { h \in RequiredFields : Get(rm, h) = "" }
\* variant of validateRecord: the table is looked up before the model and
\* version are compared with the pre-declared ones
validateRecord_tableFirst(mm, rm, named) ==
    LET line == Get(rm, "line")
        at == [NoReport EXCEPT !.line = line]
        sm == mm.serviceModels
        cdm == Get(rm, "cdm")
        mFound == cdm \in DOMAIN sm
        version == IF mFound /\ Get(rm, "cdm-version") = ""
                   THEN Last(sm[cdm].sorted) ELSE Get(rm, "cdm-version")
        vFound == mFound /\ \E i \in 1..Len(sm[cdm].sorted) : sm[cdm].sorted[i] = version
        rm2 == IF mFound
               THEN [k \in DOMAIN rm \cup {"cdm-version"} |->
                        IF k = "cdm-version" THEN version ELSE rm[k]]
               ELSE rm
        tables == TablesOf(sm, cdm, version)
        tFound == \E i \in 1..Len(tables) : tables[i] = Get(rm, "table")
    IN  IF emptyRequired(rm) # {}
        THEN [err |-> "missing required value", report |-> [at EXCEPT !.field = named], rm |-> rm]
        ELSE IF mm.site # "" /\ Get(rm, "site") # mm.site
        THEN [err |-> "site does not match expected site", report |-> at, rm |-> rm]
        ELSE IF ~mFound \/ ~vFound
        THEN [err |-> "cdm version not found in data models service", report |-> at, rm |-> rm2]
        ELSE IF ~tFound
        THEN [err |-> "table not found in data models service", report |-> at, rm |-> rm2]
        ELSE IF mm.model # "" /\ cdm # mm.model
        THEN [err |-> "cdm does not match expected model", report |-> at, rm |-> rm2]
        ELSE IF mm.modelVersion # "" /\ version # mm.modelVersion
        THEN [err |-> "cdm-version does not match expected model version", report |-> at, rm |-> rm2]
        ELSE IF mm.dataVersion # "" /\ Get(rm, "data-version") # ""
                /\ Get(rm, "data-version") # mm.dataVersion
        THEN [err |-> "data-version does not match expected data version", report |-> at, rm |-> rm2]
        ELSE [err |-> "nil", report |-> NoReport, rm |-> rm2]

\* the body of the first loop of Check on one record: the error, what its
\* message names, and the record map as the loop leaves it.  named is the
\* empty required field the range over headerReq comes to first.
validateRecord(mm, rm, named) ==
    LET line == Get(rm, "line")
        at == [NoReport EXCEPT !.line = line]
        sm == mm.serviceModels
        cdm == Get(rm, "cdm")
        mFound == cdm \in DOMAIN sm
        version == IF mFound /\ Get(rm, "cdm-version") = ""
                   THEN Last(sm[cdm].sorted) ELSE Get(rm, "cdm-version")
        vFound == mFound /\ \E i \in 1..Len(sm[cdm].sorted) : sm[cdm].sorted[i] = version
        rm2 == IF mFound
               THEN [k \in DOMAIN rm \cup {"cdm-version"} |->
                        IF k = "cdm-version" THEN version ELSE rm[k]]
               ELSE rm
        tables == TablesOf(sm, cdm, version)
        tFound == \E i \in 1..Len(tables) : tables[i] = Get(rm, "table")
    IN  IF emptyRequired(rm) # {}
        THEN [err |-> "missing required value", report |-> [at EXCEPT !.field = named], rm |-> rm]
        ELSE IF mm.site # "" /\ Get(rm, "site") # mm.site
        THEN [err |-> "site does not match expected site", report |-> at, rm |-> rm]
        ELSE IF ~mFound \/ ~vFound
        THEN [err |-> "cdm version not found in data models service", report |-> at, rm |-> rm2]
        ELSE IF mm.model # "" /\ cdm # mm.model
        THEN [err |-> "cdm does not match expected model", report |-> at, rm |-> rm2]
        ELSE IF mm.modelVersion # "" /\ version # mm.modelVersion
        THEN [err |-> "cdm-version does not match expected model version", report |-> at, rm |-> rm2]
        ELSE IF ~tFound
        THEN [err |-> "table not found in data models service", report |-> at, rm |-> rm2]
        ELSE IF mm.dataVersion # "" /\ Get(rm, "data-version") # ""
                /\ Get(rm, "data-version") # mm.dataVersion
        THEN [err |-> "data-version does not match expected data version", report |-> at, rm |-> rm2]
        ELSE [err |-> "nil", report |-> NoReport, rm |-> rm2]

\* variant of validateFrom: only the first record is validated
validateFrom_firstOnly(mm, rms, i, named) ==
    IF i > Len(rms) THEN [err |-> "nil", report |-> NoReport, recordMaps |-> rms, at |-> 0]
    ELSE LET v == validateRecord(mm, rms[i], named)
         IN  [err |-> v.err, report |-> v.report,
              recordMaps |-> [rms EXCEPT ![i] = v.rm], at |-> IF v.err = "nil" THEN 0 ELSE i]

\* the first loop of Check from record i on: it returns at the first error
RECURSIVE validateFrom(_, _, _, _)
validateFrom(mm, rms, i, named) ==
    IF i > Len(rms) THEN [err |-> "nil", report |-> NoReport, recordMaps |-> rms, at |-> 0]
    ELSE LET v == validateRecord(mm, rms[i], named)
             rms2 == [rms EXCEPT ![i] = v.rm]
         IN  IF v.err # "nil"
             THEN [err |-> v.err, report |-> v.report, recordMaps |-> rms2, at |-> i]
             ELSE validateFrom(mm, rms2, i + 1, named)

\* whether named is a field the range over headerReq can come to first in
\* the record the loop stops at
namedPossible(res, named) ==
    IF res.err = "missing required value"
    THEN named \in emptyRequired(res.recordMaps[res.at])
    ELSE named = ""

\* the file of the data directory with this name
HasFile(files, name) == \E i \in 1..Len(files) : files[i].name = name
FileNamed(files, name) == files[CHOOSE i \in 1..Len(files) : files[i].name = name]

\* the second loop of Check from record i on: each file is opened and its
\* digest compared; the error, what it names, and the files opened
RECURSIVE checksumsFrom(_, _, _)
checksumsFrom(rms, i, files) ==
    IF i > Len(rms) THEN [err |-> "nil", report |-> NoReport, opened |-> <<>>]
    ELSE LET rm == rms[i]
             name == Get(rm, "filename")
         IN  IF ~HasFile(files, name)
             THEN [err |-> "no such file", report |-> [NoReport EXCEPT !.file = name],
                   opened |-> <<>>]
             ELSE IF Get(rm, "checksum") # Sum(FileNamed(files, name).content)
             THEN [err |-> "checksum does not match",
                   report |-> [NoReport EXCEPT !.line = Get(rm, "line"), !.file = name],
                   opened |-> <<name>>]
             ELSE LET rest == checksumsFrom(rms, i + 1, files)
                  IN  [rest EXCEPT !.opened = <<name>> \o @]

Reverse(seq) == [i \in 1..Len(seq) |-> seq[Len(seq) + 1 - i]]

\* the file events of the second loop: the opens, then the deferred closes
\* when Check returns
checksumLog(opened) ==
    [i \in 1..Len(opened) |-> Ev("open", opened[i])]
        \o [i \in 1..Len(opened) |-> Ev("close", Reverse(opened)[i])]

\* strings.TrimSuffix(filepath.Base(path), ".csv")
tableNameOf(name) ==
    CASE name = "person.csv" -> "person"
      [] name = "datafile1.csv" -> "datafile1"
      [] OTHER -> name

InList(seq, x) == \E i \in 1..Len(seq) : seq[i] = x

\* the version choices Make offers: the versions of every model
versionChoices(sm) == UNION { { sm[x].sorted[i] : i \in 1..Len(sm[x].sorted) } : x \in DOMAIN sm }

\* what Make has on the Metadata object once the prompts are answered;
\* inputs are the answers collectInput returns
afterPrompts(mm, inputs) ==
    LET site == IF mm.site = "" THEN inputs.site ELSE mm.site
        model == IF mm.model = "" THEN LowerOf(inputs.model) ELSE mm.model
        version == IF mm.modelVersion = "" THEN LowerOf(inputs.version) ELSE mm.modelVersion
        etl == IF mm.etl = "" THEN inputs.etl ELSE mm.etl
    IN  [mm EXCEPT !.site = site, !.model = model, !.modelVersion = version, !.etl = etl]

\* the table of a data file: its name when the model version has such a
\* table, the answer to the prompt otherwise
tableOf(mm, name, inputs) ==
    IF InList(TablesOf(mm.serviceModels, mm.model, mm.modelVersion), tableNameOf(name))
    THEN tableNameOf(name)
    ELSE LowerOf(inputs.table[name])

\* the row makeRowWriter writes for a data file
rowOf(mm, file, inputs) ==
    <<mm.site, file.name, Sum(file.content), mm.model, mm.modelVersion,
      tableOf(mm, file.name, inputs), mm.etl, mm.dataVersion>>

\* the walk of Make from file i on: the rows written and the error
RECURSIVE walkRows(_, _, _, _)
walkRows(mm, files, i, inputs) ==
    IF i > Len(files) THEN [err |-> "nil", rows |-> <<>>, log |-> <<>>]
    ELSE IF ~IsCsv(files[i].name)
    THEN [err |-> "non-csv file found", rows |-> <<>>, log |-> <<>>]
    ELSE LET rest == walkRows(mm, files, i + 1, inputs)
         IN  [rest EXCEPT !.rows = <<rowOf(mm, files[i], inputs)>> \o @,
                          !.log = <<Ev("open", files[i].name), Ev("close", files[i].name)>> \o @]

\* collectInput returns only an answer that is among the choices, when there
\* are choices; a prompt that is not made has no answer
answersAccepted(mm, files, inputs) ==
    LET sm == mm.serviceModels
        m2 == afterPrompts(mm, inputs)
        choices == TablesOf(sm, m2.model, m2.modelVersion)
    IN  /\ mm.site # "" => inputs.site = ""
        /\ IF mm.model = "" THEN LowerOf(inputs.model) \in DOMAIN sm ELSE inputs.model = ""
        /\ IF mm.modelVersion = "" THEN LowerOf(inputs.version) \in versionChoices(sm)
           ELSE inputs.version = ""
        /\ mm.etl # "" => inputs.etl = ""
        /\ \A name \in DOMAIN inputs.table :
              IF HasFile(files, name) /\ IsCsv(name) /\ ~InList(choices, tableNameOf(name))
              THEN choices # <<>> => InList(choices, LowerOf(inputs.table[name]))
              ELSE inputs.table[name] = ""

\* Metadata.Make(w): the error, the Metadata object, the manifest written
\* and the file events
Make(mm, files, inputs) ==
    LET m2 == afterPrompts(mm, inputs)
        walked == walkRows(m2, files, 1, inputs)
        written == [exists |-> TRUE, header |-> canonicalHeader, rows |-> walked.rows]
        back == readData(written, "")
    IN  IF walked.err # "nil"
        THEN [err |-> walked.err, m |-> [m2 EXCEPT !.header = canonicalHeader],
              manifest |-> written, log |-> walked.log]
        ELSE [err |-> back.err,
              m |-> [m2 EXCEPT !.header = back.header, !.recordMaps = back.recordMaps],
              manifest |-> written, log |-> walked.log]

(***************************************************************************)
(* CreateOrVerifyMetadataFile, run on a data directory once and again      *)
(***************************************************************************)
\* the data files the metadata runs see, in walk order
MetaNames == <<"README.txt", "datafile1.csv", "person.csv">>

\* the directories of at most k files with names from `names`
DirsOver(names, k) ==
    UNION { { [i \in 1..Len(pick(names, sel)) |->
                 [name |-> pick(names, sel)[i], content |-> cs[i]]] :
              cs \in [1..Cardinality(sel) -> Contents] } :
            sel \in { x \in SUBSET { names[i] : i \in 1..Len(names) } :
                        Cardinality(x) <= k } }

CsvOnly(files) == \A i \in 1..Len(files) : IsCsv(files[i].name)

\* a manifest record that describes a data file truthfully
goodRecord(file) ==
    [f \in CanonicalFields |->
        CASE f = "organization" -> "ORG"
          [] f = "filename" -> file.name
          [] f = "checksum" -> Sum(file.content)
          [] f = "cdm" -> "pedsnet"
          [] f = "cdm-version" -> "2.1.0"
          [] f = "table" -> (IF file.name = "person.csv" THEN "person" ELSE "visit")
          [] f = "etl" -> "url"
          [] f = "data-version" -> ""]

\* the values a record of a manifest found in a directory may carry instead
OtherValues(f) ==
    CASE f = "organization" -> {"OTHER", ""}
      [] f = "filename" -> {"missing.csv"}
      [] f = "checksum" -> {"e3b0c442", "c0719e9a", "E3B0C442"}
      [] f = "cdm" -> {"i2b2", "PEDSNET", "nomodel"}
      [] f = "cdm-version" -> {"", "2.0.0", "9.9.9"}
      [] f = "table" -> {"person", "visit", "nosuch"}
      [] f = "etl" -> {""}
      [] f = "data-version" -> {"1", "2"}

\* the headers of a manifest found in a directory; <<>> is the empty file
Headers ==
    { canonicalHeader,
      <<>>,
      <<"organization", "filename", "cdm", "cdm-version", "table", "etl", "data-version">>,
      <<"organization", "filename", "cdm", "cdm-version", "table", "data-version">>,
      <<"organization", "filename", "checksum", "cdm", "table", "etl">>,
      <<"organization", "filename", "Checksum", "cdm", "cdm-version", "table", "etl",
        "data-version">>,
      <<"organization", "filename", "checksum", "cdm", "cdm-version", "table", "etl",
        "data-version", "site">> }

\* the csv row of a record under a header
rowUnder(header, rec) ==
    [i \in 1..Len(header) |->
        IF LowerOf(header[i]) \in CanonicalFields THEN rec[LowerOf(header[i])] ELSE "ORG"]

Deviations == UNION { { <<f, v>> : v \in OtherValues(f) } : f \in CanonicalFields }

\* a checksum that is not the one of the content
wrongSum(content) == IF Sum(content) = "e3b0c442" THEN "c0719e9a" ELSE "e3b0c442"

\* the records of a manifest for the files: truthful, or with one value of
\* one record replaced, or with the checksum of the first record wrong and
\* one value of the last record replaced
RecordLists(files) ==
    LET good == [i \in 1..Len(files) |-> goodRecord(files[i])]
        stale == [good EXCEPT ![1]["checksum"] = wrongSum(files[1].content)]
    IN  {good} \cup { [good EXCEPT ![i][d[1]] = d[2]] : i \in 1..Len(files), d \in Deviations }
        \cup (IF Len(files) < 2 THEN {}
              ELSE { [stale EXCEPT ![Len(files)][d[1]] = d[2]] : d \in Deviations })

\* the manifests a directory may hold before the run
Manifests(files) ==
    { [exists |-> TRUE, header |-> canonicalHeader,
       rows |-> [i \in 1..Len(recs) |-> rowUnder(canonicalHeader, recs[i])]] :
        recs \in RecordLists(files) }
    \cup
    { [exists |-> TRUE, header |-> h,
       rows |-> IF h = <<>> THEN <<>>
                ELSE [i \in 1..Len(files) |-> rowUnder(h, goodRecord(files[i]))]] :
        h \in Headers }

Sites == {"", "ORG"}
ModelFlags == {"", "pedsnet"}
VersionFlags == {"", "2.0.0", "2.1.0"}
DataVersionFlags == {"", "1"}
EtlFlags == {"", "url"}

\* the answers typed at the prompts of Make
Answers ==
    [site : Sites, model : {"", "pedsnet", "i2b2"}, version : {""} \cup { VersionOrder[i] : i \in 1..Len(VersionOrder) },
     etl : EtlFlags,
     table : [{"datafile1.csv", "person.csv"} -> {"", "person", "visit"}]]

\* the flags parsed and the service listing fixed; a directory with a
\* manifest to verify, or a directory without one
InitMeta ==
    /\ cfg = NewConfig("", "", "", <<>>)
    /\ decl = Declared(cfg)
    /\ err = "nil"
    /\ pc = "mdStart"
    /\ nVerify = 0
    /\ mode = "none"
    /\ exitBy = ""
    /\ pkg = NoPackage
    /\ w = NoWriter
    /\ r = NoReader
    /\ outDir = {}
    /\ fsLog = <<>>
    /\ CryptIdle
    /\ catalog \in Catalogs
    /\ m = NoMetadata
    /\ results = <<>>
    /\ report = NoReport
    /\ \/ /\ data \in { d \in DirsOver(MetaNames, MaxFiles) : CsvOnly(d) }
          /\ manifest \in Manifests(data)
          /\ \E s \in Sites, mo \in ModelFlags, v \in VersionFlags, dv \in DataVersionFlags :
                flags = [Site |-> s, Model |-> mo, ModelVersion |-> v, DataVersion |-> dv,
                         Etl |-> "", verifyOnly |-> FALSE]
       \/ /\ data \in DirsOver(MetaNames, MaxFiles)
          /\ manifest = NoManifest
          /\ \E s \in Sites, mo \in ModelFlags, v \in VersionFlags, e \in EtlFlags, vo \in BOOLEAN :
                flags = [Site |-> s, Model |-> mo, ModelVersion |-> v, DataVersion |-> "",
                         Etl |-> e, verifyOnly |-> vo]
    /\ before = [manifest |-> manifest, data |-> data]

pipeVars == <<cfg, decl, nVerify, mode, exitBy, pkg, w, r, outDir, cryptVars>>

\* CreateOrVerifyMetadataFile: NewMetadata(cfg)
MdNewMetadata ==
    /\ pc = "mdStart"
    /\ \E iter \in IterOrders(catalog) :
          LET res == NewMetadata(flags, catalog, iter)
          IN  /\ m' = res.m
              /\ err' = res.err
              /\ pc' = IF res.err = "nil" THEN "mdNew" ELSE "mdDone"
    /\ UNCHANGED <<pipeVars, data, fsLog, flags, catalog, manifest, results, report, before>>

\* variant of openManifest: the open of a manifest that exists truncates it
openManifest_truncate(mf, verifyOnly) ==
    IF ~mf.exists
    THEN [manifest |-> [exists |-> TRUE, header |-> <<>>, rows |-> <<>>],
          err |-> IF verifyOnly THEN "metadata file not found" ELSE "nil",
          next |-> IF verifyOnly THEN "mdDone" ELSE "mdMake",
          log |-> <<Ev("create", "metadata.csv")>>
                     \o (IF verifyOnly THEN <<Ev("close", "metadata.csv")>> ELSE <<>>)]
    ELSE [manifest |-> [exists |-> TRUE, header |-> <<>>, rows |-> <<>>], err |-> "nil",
          next |-> "mdRead", log |-> <<Ev("open", "metadata.csv")>>]

\* CreateOrVerifyMetadataFile: os.OpenFile with O_CREATE|O_EXCL creates the
\* manifest when there is none, and os.Open opens the one there is: the
\* manifest file, the error returned at once, the step that follows and the
\* file events
openManifest(mf, verifyOnly) ==
    IF ~mf.exists
    THEN [manifest |-> [exists |-> TRUE, header |-> <<>>, rows |-> <<>>],
          err |-> IF verifyOnly THEN "metadata file not found" ELSE "nil",
          next |-> IF verifyOnly THEN "mdDone" ELSE "mdMake",
          log |-> <<Ev("create", "metadata.csv")>>
                     \o (IF verifyOnly THEN <<Ev("close", "metadata.csv")>> ELSE <<>>)]
    ELSE [manifest |-> mf, err |-> "nil", next |-> "mdRead",
          log |-> <<Ev("open", "metadata.csv")>>]

MdOpen ==
    /\ pc = "mdNew"
    /\ LET res == openManifest(manifest, flags.verifyOnly)
       IN  /\ manifest' = res.manifest
           /\ err' = res.err
           /\ pc' = res.next
           /\ fsLog' = fsLog \o res.log
    /\ UNCHANGED <<pipeVars, data, flags, catalog, m, results, report, before>>

\* CreateOrVerifyMetadataFile: metadata.Make(metadataFile)
MdMake ==
    /\ pc = "mdMake"
    /\ \E inputs \in Answers :
          /\ answersAccepted(m, data, inputs)
          /\ LET res == Make(m, data, inputs)
             IN  /\ m' = res.m
                 /\ manifest' = res.manifest
                 /\ err' = res.err
                 /\ fsLog' = fsLog \o res.log \o <<Ev("close", "metadata.csv")>>
    /\ pc' = "mdDone"
    /\ UNCHANGED <<pipeVars, data, flags, catalog, results, report, before>>

\* Metadata.Check: readData
MdReadData ==
    /\ pc = "mdRead"
    /\ \E named \in namedChoices(missingRequired(manifest.header)) :
          LET res == readData(manifest, named)
          IN  /\ m' = [m EXCEPT !.header = res.header, !.recordMaps = res.recordMaps]
              /\ err' = res.err
              /\ report' = res.report
              /\ pc' = IF res.err = "nil" THEN "mdValidate" ELSE "mdDone"
              /\ fsLog' = IF res.err = "nil" THEN fsLog
                          ELSE fsLog \o <<Ev("close", "metadata.csv")>>
    /\ UNCHANGED <<pipeVars, data, flags, catalog, manifest, results, before>>

\* Metadata.Check: the loop that validates the record values
MdValidate ==
    /\ pc = "mdValidate"
    /\ \E named \in RequiredFields \cup {""} :
          LET res == validateFrom(m, m.recordMaps, 1, named)
          IN  /\ namedPossible(res, named)
              /\ m' = [m EXCEPT !.recordMaps = res.recordMaps]
              /\ err' = res.err
              /\ report' = res.report
              /\ pc' = IF res.err = "nil" THEN "mdSums" ELSE "mdDone"
              /\ fsLog' = IF res.err = "nil" THEN fsLog
                          ELSE fsLog \o <<Ev("close", "metadata.csv")>>
    /\ UNCHANGED <<pipeVars, data, flags, catalog, manifest, results, before>>

\* Metadata.Check: the loop that validates the record checksums
MdChecksums ==
    /\ pc = "mdSums"
    /\ LET res == checksumsFrom(m.recordMaps, 1, data)
       IN  /\ err' = res.err
           /\ report' = res.report
           /\ fsLog' = fsLog \o checksumLog(res.opened) \o <<Ev("close", "metadata.csv")>>
    /\ pc' = "mdDone"
    /\ UNCHANGED <<pipeVars, data, flags, catalog, m, manifest, results, before>>

\* the program is run again with the same flags on the directory as it is
MdRerun ==
    /\ pc = "mdDone"
    /\ Len(results) + 1 < MaxRuns
    /\ results' = Append(results, [err |-> err, report |-> report, before |-> before,
                                   manifest |-> manifest, data |-> data, log |-> fsLog])
    /\ before' = [manifest |-> manifest, data |-> data]
    /\ pc' = "mdStart"
    /\ err' = "nil"
    /\ report' = NoReport
    /\ m' = NoMetadata
    /\ fsLog' = <<>>
    /\ UNCHANGED <<pipeVars, data, flags, catalog, manifest>>

NextMeta ==
    \/ MdNewMetadata
    \/ MdOpen
    \/ MdMake
    \/ MdReadData
    \/ MdValidate
    \/ MdChecksums
    \/ MdRerun

SpecMeta == InitMeta /\ [][NextMeta]_vars

(***************************************************************************)
(* What the claims speak about, stated on the file name itself.            *)
(***************************************************************************)
Recognised == {"gpg", "tar", "bz2", "bzip2", "gz", "gzip", "zip"}

\* the package file name of the current Config and the set of its suffixes
PkgName == cfg.PackagePath[Len(cfg.PackagePath)]
PkgSuffixes == { PkgName[i] : i \in 2..Len(PkgName) }

Verified == pc = "verified" /\ cfg.PackagePath # <<>>
AllRecognised == PkgSuffixes \subseteq Recognised
HasGpg == "gpg" \in PkgSuffixes
HasTar == "tar" \in PkgSuffixes
HasGz == PkgSuffixes \cap {"gz", "gzip"} # {}
HasBz2 == PkgSuffixes \cap {"bz2", "bzip2"} # {}
HasZip == "zip" \in PkgSuffixes
CompKinds ==
    (IF HasGz THEN {"gz"} ELSE {}) \cup (IF HasBz2 THEN {"bz2"} ELSE {})
        \cup (IF HasZip THEN {"zip"} ELSE {})

CompressionErrors == {errUnexpectedExt, errExtConflict, errNoTar, errCfgConflict, errNoComp}

\* the spellings of each method the -comp flag may use
SpellingsOf(method) ==
    CASE method = ".tar.gz" -> {".tar.gz", ".tar.gzip"}
      [] method = ".tar.bz2" -> {".tar.bz2", ".tar.bzip2"}
      [] method = ".zip" -> {".zip"}

\* the method the suffixes infer, "none" when they infer none
InferredMethod ==
    IF ~AllRecognised \/ Cardinality(CompKinds) > 1 \/ ((HasGz \/ HasBz2) /\ ~HasTar)
    THEN "none"
    ELSE IF HasGz THEN ".tar.gz"
    ELSE IF HasBz2 THEN ".tar.bz2"
    ELSE IF HasZip THEN ".zip"
    ELSE "none"

\* the outcome of the call as far as the compression method goes: `want` is
\* an error of the resolver or a method
CompressionOutcomeIs(want) ==
    IF want \in CompressionErrors
    THEN err = want
    ELSE cfg.Comp = want /\ err \notin CompressionErrors

(***************************************************************************)
(* The pipeline: round trip, reader outcomes, key material, layer order.   *)
(***************************************************************************)
AllCsv == \A i \in 1..Len(data) : IsCsv(data[i].name)

\* the unpacking process was given the key ring exactly when the package was
\* encrypted to the user's key
KeyMatches == (cfg.KeyPath # "") <=> (w.key = userKey)

\* the unpacking of a package written by a PackageWriter has ended
UnpackOfPackedEnded ==
    /\ mode = "unpack"
    /\ pc \in {"unpacked", "exited"}
    /\ w.kind = "PackageWriter"

\* C1: a directory of .csv files packed under a configuration that Verify
\* and NewPackageWriter accept, then unpacked by a process holding the
\* matching key, comes back: the unpacking succeeds and the unpacked files
\* are the packed files, name by name and content by content.
C1_RoundTrip ==
    (UnpackOfPackedEnded /\ AllCsv /\ KeyMatches)
        => (pc = "unpacked" /\ outDir = FilesOf(data))

\* C2: whatever the input stream and the compression setting, the reader
\* hands its caller a header, the end of the archive or an error: the
\* process is never terminated from within DecompressingReader.Next.
C2_NoExitInNext == exitBy # "DecompressingReader.Next"

NoKeyMaterial == decl.KeyPath = "" /\ decl.PublicKeyEmail = ""
EncTokens(bytes) == { i \in 1..Len(bytes) : bytes[i].t \in {"encHdr", "encEnd"} }

\* C3: a packing run with no key path and no remote key identity has no
\* encryption writer and writes no OpenPGP message.
C3_NoDefaultKey ==
    (mode = "pack" /\ NoKeyMaterial)
        => (w.state["enc"] = "nil" /\ EncTokens(pkg.bytes) = {})

WriterEncrypts == w.state["enc"] # "nil" /\ Len(w.order) >= 3
ReaderDecrypts == Len(r.order) >= 3 /\ \E i \in 1..Len(r.order) : r.order[i] = "dec"

\* what a layer of a writer or of a reader does
Kind(l) ==
    CASE l \in {"out", "in"} -> "file"
      [] l \in {"enc", "dec"} -> "encryption"
      [] l \in {"gzip", "gunzip", "bunzip2"} -> "compression"
      [] l \in {"tar", "untar"} -> "archive"
      [] l \in {"zip", "unzip"} -> "zip"

Kinds(order) == [i \in 1..Len(order) |-> Kind(order[i])]

\* C4: with encryption active the encryption writer sits directly on the
\* output and the compressor above it, so the package starts with the
\* OpenPGP header; a reader that decrypts has the decrypting layer directly
\* on the input and the decompressor above it; and such a reader undoes
\* what such a writer does layer by layer, from the file up.
C4_LayerOrder ==
    /\ WriterEncrypts =>
          /\ w.order[1] = "out" /\ w.order[2] = "enc"
          /\ \A i \in 3..Len(w.order) : w.order[i] \in {"gzip", "tar", "zip"}
          /\ pkg.bytes # <<>> => Head(pkg.bytes).t = "encHdr"
    /\ ReaderDecrypts =>
          /\ r.order[1] = "in" /\ r.order[2] = "dec"
          /\ \A i \in 3..Len(r.order) : r.order[i] \in {"gunzip", "bunzip2", "untar", "unzip"}
    /\ (WriterEncrypts /\ ReaderDecrypts) =>
          Kinds(r.order) = Kinds(w.order)

\* a package encrypted and compressed by DataPackage.Pack has been decrypted
\* and decompressed to its end, and the files are those packed
C4_Witness ==
    /\ pc = "unpacked"
    /\ WriterEncrypts /\ ReaderDecrypts
    /\ data # <<>>
    /\ outDir = FilesOf(data)

\* C5: a file name of recognised suffixes with at least two of gz, bz2, zip
\* makes Verify fail with the extension-conflict error, and no file has been
\* opened or created when it returns.
C5_ExtensionConflict ==
    (Verified /\ AllRecognised /\ Cardinality(CompKinds) >= 2)
        => (err = errExtConflict /\ fsLog = <<>> /\ pkg = NoPackage)

C5_Witness ==
    /\ Verified
    /\ PkgName = <<"test", "tar", "gz", "zip">>
    /\ err = errExtConflict
    /\ fsLog = <<>>

\* C6 as stated: with recognised, non-conflicting suffixes and no pre-declared
\* method that disagrees, gz or bz2 without tar gives the missing-tar error,
\* tar+gz gives .tar.gz, tar+bz2 gives .tar.bz2, zip without tar gives .zip,
\* and every other suffix set (tar together with zip included) gives the
\* no-compression-extension error.
C6_TableAsStated ==
    (Verified /\ AllRecognised /\ Cardinality(CompKinds) <= 1
        /\ (InferredMethod = "none" \/ decl.Comp \in {""} \cup SpellingsOf(InferredMethod)))
    => CompressionOutcomeIs(
          IF (HasGz \/ HasBz2) /\ ~HasTar THEN errNoTar
          ELSE IF HasTar /\ HasGz THEN ".tar.gz"
          ELSE IF HasTar /\ HasBz2 THEN ".tar.bz2"
          ELSE IF HasZip /\ ~HasTar THEN ".zip"
          ELSE errNoComp)

\* C6 amended: the same table, except that zip gives .zip whether or not a
\* tar suffix is present; the no-compression-extension error is left for
\* the names with no gz, bz2 or zip suffix (no suffix, gpg only, tar only).
C6_Table ==
    (Verified /\ AllRecognised /\ Cardinality(CompKinds) <= 1
        /\ (InferredMethod = "none" \/ decl.Comp \in {""} \cup SpellingsOf(InferredMethod)))
    => CompressionOutcomeIs(
          IF (HasGz \/ HasBz2) /\ ~HasTar THEN errNoTar
          ELSE IF HasTar /\ HasGz THEN ".tar.gz"
          ELSE IF HasTar /\ HasBz2 THEN ".tar.bz2"
          ELSE IF HasZip THEN ".zip"
          ELSE errNoComp)

C6_Witness ==
    /\ Verified
    /\ PkgName = <<"test", "tar", "zip">>
    /\ decl.Comp = ""
    /\ cfg.Comp = ".zip"
    /\ err = "nil"

\* C7: a file name with at least one suffix outside the recognised set makes
\* Verify fail with the unexpected-extension error, wherever in the chain
\* that suffix stands and whatever the other suffixes and settings are.
C7_UnknownSuffix ==
    (Verified /\ ~AllRecognised) => err = errUnexpectedExt

C7_Witness ==
    /\ Verified
    /\ PkgName = <<"test", "csv", "tar", "gz">>
    /\ err = errUnexpectedExt

\* C8: with a method pre-declared in Comp and a file name that infers a
\* method, Verify fails with the compression-conflict error when the two
\* differ, and otherwise does not raise it and leaves Comp at the canonical
\* name of the inferred method.
C8_DeclaredMethod ==
    (Verified /\ nVerify = 1 /\ decl.Comp # "" /\ InferredMethod # "none")
    => IF decl.Comp \in SpellingsOf(InferredMethod)
       THEN err # errCfgConflict /\ cfg.Comp = InferredMethod
       ELSE err = errCfgConflict

C8_Witness ==
    /\ Verified
    /\ PkgName = <<"test", "tar", "bz2">>
    /\ decl.Comp = ".tar.bzip2"
    /\ cfg.Comp = ".tar.bz2"
    /\ err = "nil"

\* C9: when the compression resolves without error, a gpg suffix without
\* key material gives the missing-key error, key material without a gpg
\* suffix gives the unexpected-key error, and anything else succeeds; key
\* material is a local key path or a remote key identity.
KeyMaterial == cfg.KeyPath # "" \/ cfg.PublicKeyEmail # ""

C9_KeyCheck ==
    (Verified /\ err \notin CompressionErrors)
    => IF HasGpg /\ ~KeyMaterial THEN err = errNoKey
       ELSE IF KeyMaterial /\ ~HasGpg THEN err = errNoGpg
       ELSE err = "nil"

\* C10: the outcome of Verify for a file name (the error, and the method
\* resolved when there is none) is the outcome a fresh Config holding the
\* user's declared settings and that file name gives, whatever calls were
\* made on the Config before.
C10_Pure ==
    Verified
    => LET fresh == VerifyResult(NewConfig(decl.Comp, decl.KeyPath,
                                           decl.PublicKeyEmail, cfg.PackagePath))
       IN  /\ err = fresh.err
           /\ err = "nil" => cfg.Comp = fresh.cfg.Comp

(***************************************************************************)
(* The manifest: header, records, checksums                                *)
(***************************************************************************)
\* Check has been called on the manifest and readData has returned
ReadDataReturned ==
    /\ InList(fsLog, Ev("open", "metadata.csv"))
    /\ pc \in {"mdValidate", "mdSums", "mdDone"}

\* the header has a field outside the canonical set or lacks a required one
BadHeader(header) ==
    \/ \E i \in 1..Len(header) : LowerOf(header[i]) \notin CanonicalFields
    \/ \E f \in {"organization", "filename", "checksum", "cdm", "table", "etl"} :
          \A i \in 1..Len(header) : LowerOf(header[i]) # f

\* the data files opened so far
DataOpens == { i \in 1..Len(fsLog) : fsLog[i][1] = "open" /\ fsLog[i][2] # "metadata.csv" }

\* C11: readData rejects a manifest whose header has a field outside the
\* canonical set, and one whose header lacks a required field (organization,
\* filename, checksum, cdm, table, etl); the rejection ends the check before
\* any data file the manifest names is opened.
C11_HeaderRejected ==
    (ReadDataReturned /\ BadHeader(manifest.header))
        => /\ pc = "mdDone"
           /\ err \in {"EOF", "unexpected header value", "missing required header value"}
           /\ DataOpens = {}

\* a manifest of a directory with data files is rejected for its header,
\* which lacks the checksum field
C11_Witness ==
    /\ ReadDataReturned
    /\ data # <<>>
    /\ manifest.header # <<>>
    /\ err = "missing required header value"
    /\ report.field = "checksum"
    /\ DataOpens = {}

\* the decimal numeral of a manifest line number
Itoa(n) ==
    CASE n = 1 -> "1"
      [] n = 2 -> "2"
      [] n = 3 -> "3"
      [] n = 4 -> "4"
      [] n = 5 -> "5"
      [] OTHER -> "?"

\* the first loop of Check has stopped with this error
ValidateStoppedWith(e) ==
    /\ InList(fsLog, Ev("open", "metadata.csv"))
    /\ pc = "mdDone"
    /\ err = e

\* C12: the consistency check of Check compares a record with the site that
\* was pre-declared and fails with the site mismatch error only when they
\* differ: with site S pre-declared, a manifest whose every record carries
\* organization S is not failed by the site check.
C12_SiteCheck ==
    (ValidateStoppedWith("site does not match expected site") /\ m.recordMaps # <<>>)
        => \E i \in 1..Len(m.recordMaps) : Get(m.recordMaps[i], "organization") # m.site

\* the latest version of a model: the last of its versions in sorted order
LatestVersion(model) == Last(SortVersions(listed(catalog, model)))

\* the record maps as readData read them from the manifest
RecordsAsRead == readData(manifest, "").recordMaps

\* C13: a record whose cdm-version is empty is checked under the latest
\* version of its model, the last of the catalog's sorted version list,
\* whatever the order in which the service listed the versions and whether
\* or not a model was pre-declared.
C13_LatestVersion ==
    (InList(fsLog, Ev("open", "metadata.csv")) /\ pc = "mdSums")
        => \A i \in 1..Len(m.recordMaps) :
              Get(RecordsAsRead[i], "cdm-version") = ""
                  => Get(m.recordMaps[i], "cdm-version") = LatestVersion(Get(m.recordMaps[i], "cdm"))

\* the record at manifest line i + 1 names a data file whose digest is not
\* the record's checksum
ChecksumDiffers(i) ==
    LET rm == m.recordMaps[i]
    IN  /\ HasFile(data, Get(rm, "filename"))
        /\ Get(rm, "checksum") # Sum(FileNamed(data, Get(rm, "filename")).content)

\* C14: Check recomputes the digest of every data file the manifest names
\* and compares it with the recorded checksum; when a file's digest differs,
\* the check fails with an error that names that file and the manifest line
\* number of its record, the header row being line 1.
C14_ChecksumError ==
    /\ ValidateStoppedWith("checksum does not match")
          => \E i \in 1..Len(m.recordMaps) :
                /\ ChecksumDiffers(i)
                /\ report.file = Get(m.recordMaps[i], "filename")
                /\ report.line = Itoa(i + 1)
    /\ (InList(fsLog, Ev("open", "metadata.csv")) /\ pc = "mdDone" /\ err = "nil")
          => \A i \in 1..Len(m.recordMaps) : ~ChecksumDiffers(i)

\* what the checksum error names in its place: the file whose digest differs,
\* and the character whose code point is the line number
ChecksumErrorNamesFile ==
    /\ ValidateStoppedWith("checksum does not match")
          => \E i \in 1..Len(m.recordMaps) :
                /\ ChecksumDiffers(i)
                /\ report.file = Get(m.recordMaps[i], "filename")
                /\ report.line = RuneString(i + 1)
    /\ (InList(fsLog, Ev("open", "metadata.csv")) /\ pc = "mdDone" /\ err = "nil")
          => \A i \in 1..Len(m.recordMaps) : ~ChecksumDiffers(i)

\* a run of CreateOrVerifyMetadataFile has ended on a directory that held
\* metadata.csv when the run began
VerificationEnded == pc = "mdDone" /\ before.manifest.exists

\* verification has run twice in succession on the directory
VerifiedTwice ==
    /\ VerificationEnded
    /\ Len(results) = 1
    /\ results[1].before.manifest.exists

\* C15 as stated: verification run twice in succession on an unchanged
\* directory and manifest yields the same result both times, the error
\* message and what it names included, and a run changes neither the
\* manifest nor any data file.
C15_SameResult ==
    /\ VerificationEnded => (manifest = before.manifest /\ data = before.data)
    /\ VerifiedTwice => (err = results[1].err /\ report = results[1].report)

\* C15: verification run twice in succession on an unchanged directory and
\* manifest gives the same verdict both times: success twice, or the same
\* error on the same line and file twice.  When several required fields are
\* missing the one the error names may differ between the runs.  A run
\* changes neither the manifest nor any data file.
C15_Idempotent ==
    /\ VerificationEnded => (manifest = before.manifest /\ data = before.data)
    /\ VerifiedTwice
          => /\ err = results[1].err
             /\ report.line = results[1].report.line
             /\ report.file = results[1].report.file
             /\ report.field # results[1].report.field
                   => /\ err \in {"missing required header value", "missing required value"}
                      /\ err = "missing required header value"
                            => {report.field, results[1].report.field}
                                  \subseteq missingRequired(manifest.header)

\* verification has succeeded twice on a directory with a data file, which
\* each run opened
C15_Witness ==
    /\ VerifiedTwice
    /\ err = "nil"
    /\ results[1].err = "nil"
    /\ DataOpens # {}
    /\ manifest.rows # <<>>

\* the two runs reject the manifest and name different fields
C15_WitnessFields ==
    /\ VerifiedTwice
    /\ report.field # results[1].report.field

\* generation completed in the first run, on a directory without manifest,
\* and a second run with the same flags has ended
VerifiedAfterMake ==
    /\ pc = "mdDone"
    /\ Len(results) = 1
    /\ ~results[1].before.manifest.exists
    /\ results[1].err = "nil"
    /\ ~flags.verifyOnly

\* C16: for a directory of .csv files and a configuration (site, model,
\* model version, etl) for which Make completes, the manifest Make wrote is
\* accepted by Check run with the same configuration on the unchanged
\* directory.
C16_MakeThenCheck ==
    (VerifiedAfterMake /\ flags.Site # "" /\ flags.Model # "" /\ flags.Etl # "")
        => err = "nil"

(***************************************************************************)
(* Unpacking into a directory that holds files                             *)
(***************************************************************************)
\* Unpack is about to create the file of an entry whose target path exists
TargetPresent ==
    /\ pc = "reading"
    /\ DecompressingReaderNext(r).res = "header"
    /\ \E f \in outDir : f.name = DecompressingReaderNext(r).name

\* C17: PackageReader.Unpack never overwrites: when the target path of an
\* archive entry already exists, Unpack fails with an error and the files
\* that exist keep their content.
C17_NoOverwrite ==
    [][TargetPresent => (pc' = "exited" /\ err' = "file exists" /\ outDir' = outDir)]_vars

\* Unpack has failed on an entry named as a file that was there before, and
\* the file has the content it had
C17_Witness ==
    /\ mode = "unpack"
    /\ pc = "exited"
    /\ err = "file exists"
    /\ outDir = {[name |-> "datafile1.csv", content |-> "old content"]}

(***************************************************************************)
(* Closing the package writer                                              *)
(***************************************************************************)
\* the layers of the writer that have not been closed
OpenLayers == { l \in Layers : w.state[l] = "open" }

\* the order the layers are to be closed in: from the innermost producer to
\* the outermost sink
InnermostFirst(wr) == Reverse(wr.order)

\* the trailer a layer writes when it is closed
TrailerOf(l) ==
    CASE l = "enc" -> encEnd
      [] l = "gzip" -> gzEnd
      [] l = "zip" -> zipEnd
      [] l = "tar" -> tarEnd

\* C20: closing a package writer after a successful pack closes the tar
\* writer, then the gzip writer (or the single zip writer), then the
\* encryption writer, then the output file.  The output file is never closed
\* while a layer that writes into it is still open, and once the writer is
\* closed every layer's buffered data and trailer have reached the output.
C20_CloseOrder ==
    /\ w.state["out"] = "closed" => OpenLayers = {}
    /\ (pc = "packing" /\ w.next > Len(data))
          => packageWriterCloseOrder(w) = InnermostFirst(w)
    /\ (pc = "packed" /\ w.order # <<>>)
          => /\ \A l \in Layers : w.buf[l] = <<>>
             /\ pkg.bytes # <<>>
             /\ Last(pkg.bytes) = TrailerOf(w.order[2])

(***************************************************************************)
(* Encrypt and Decrypt by themselves: a message is written to the writer   *)
(* Encrypt returns, the writer is closed, and the ciphertext is read       *)
(* through makeDecryptingReader                                            *)
(***************************************************************************)
MaxChunks == 2

Chunks == {"A test", " message"}

\* the messages of at most k chunks
Messages(k) == UNION { [1..n -> Chunks] : n \in 0..k }

plainTok(c) == Tok("plain", c)

\* the passphrases that protect the private key; "" is the unprotected key
KeyProtections == {"", "secret", "secret "}

\* the values of PACKER_KEYPASS; "" is the variable unset or empty
EnvPassphrases == {"", "secret", "secret ", "wrong"}

\* what the passphrase file holds when there is one
PassFileContents == {"secret\n", "secret ", "wrong\n"}

KeyPassPaths == {"", "keypass.txt"}

Environments ==
    { e \in [PACKER_KEYPASS : EnvPassphrases,
             passFile : [exists : BOOLEAN, content : PassFileContents \cup {""}],
             keyPass : KeyProtections] :
        e.passFile.exists <=> e.passFile.content # "" }

InitDecrypt ==
    /\ \E kp \in KeyPassPaths :
          cfg = [NewConfig("", "key.asc", "", <<>>) EXCEPT !.KeyPassPath = kp]
    /\ decl = Declared(cfg)
    /\ err = "nil"
    /\ pc = "encStart"
    /\ nVerify = 0
    /\ mode = "none"
    /\ exitBy = ""
    /\ data = <<>>
    /\ pkg = NoPackage
    /\ w = NoWriter
    /\ r = NoReader
    /\ outDir = {}
    /\ fsLog = <<>>
    /\ env \in Environments
    /\ message \in Messages(MaxChunks)
    /\ plain = <<>>
    /\ MetaIdle

idleVars == <<decl, nVerify, mode, exitBy, data, outDir, metaVars>>

\* Encrypt(plainWriter, keyReader): openpgp.Encrypt writes the header of the
\* message for the key read
EncryptOpen ==
    /\ pc = "encStart"
    /\ \E key \in {userKey, pedsnetDCCPublicKey} :
          LET w1 == [NoWriter EXCEPT !.kind = "Encrypt", !.key = key]
              ch == openChain(w1, [exists |-> TRUE, bytes |-> <<>>], <<"out", "enc">>, key)
          IN  /\ w' = [WriterOf(w1, ch) EXCEPT !.order = <<"out", "enc">>]
              /\ pkg' = [exists |-> TRUE, bytes |-> ch.bytes]
    /\ pc' = "encWriting"
    /\ UNCHANGED <<cfg, err, r, fsLog, cryptVars, idleVars>>

\* Write on the encryption writer: the next chunk of the message
EncryptWrite ==
    /\ pc = "encWriting"
    /\ w.next <= Len(message)
    /\ \E full \in BOOLEAN :
          LET ch == push(Chain(w, pkg), 2, <<plainTok(message[w.next])>>,
                         [l \in Layers |-> full])
          IN  /\ w' = [WriterOf(w, ch) EXCEPT !.next = @ + 1]
              /\ pkg' = PkgOf(pkg, ch)
    /\ UNCHANGED <<cfg, err, pc, r, fsLog, cryptVars, idleVars>>

\* Close on the encryption writer once the message is written
EncryptClose ==
    /\ pc = "encWriting"
    /\ w.next > Len(message)
    /\ LET ch == closeLayer(Chain(w, pkg), "enc")
       IN  /\ w' = WriterOf(w, ch)
           /\ pkg' = PkgOf(pkg, ch)
    /\ pc' = "encClosed"
    /\ UNCHANGED <<cfg, err, r, fsLog, cryptVars, idleVars>>

\* makeDecryptingReader on the ciphertext
DecryptOpen ==
    /\ pc = "encClosed"
    /\ LET res == makeDecryptingReader(pkg.bytes, cfg, env)
       IN  /\ r' = [NoReader EXCEPT !.inState = "open", !.order = <<"in", "dec">>,
                                    !.src = res.src]
           /\ err' = res.err
           /\ fsLog' = fsLog \o res.log
           /\ pc' = IF res.err = "nil" THEN "decReading" ELSE "decFailed"
    /\ UNCHANGED <<cfg, pkg, w, cryptVars, idleVars>>

\* Read on the reader Decrypt returned: the next chunk, or the end of the
\* message
DecryptRead ==
    /\ pc = "decReading"
    /\ IF r.src = <<>>
       THEN /\ err' = "unexpected EOF"
            /\ pc' = "decFailed"
            /\ UNCHANGED <<r, plain>>
       ELSE IF Head(r.src) = encEnd
       THEN /\ pc' = "decDone"
            /\ r' = [r EXCEPT !.src = Tail(@)]
            /\ UNCHANGED <<err, plain>>
       ELSE /\ plain' = Append(plain, Head(r.src).a)
            /\ r' = [r EXCEPT !.src = Tail(@)]
            /\ UNCHANGED <<err, pc>>
    /\ UNCHANGED <<cfg, pkg, w, fsLog, env, message, idleVars>>

NextDecrypt ==
    \/ EncryptOpen
    \/ EncryptWrite
    \/ EncryptClose
    \/ DecryptOpen
    \/ DecryptRead

SpecDecrypt == InitDecrypt /\ [][NextDecrypt]_vars

(***************************************************************************)
(* The passphrase on the read path; Encrypt and Decrypt                    *)
(***************************************************************************)
\* makeDecryptingReader has returned
DecryptingReaderMade == pc \in {"decReading", "decDone", "decFailed"}

\* the error makeDecryptingReader returned
OpenOutcome == IF pc = "decFailed" /\ err # "unexpected EOF" THEN err ELSE "nil"

\* the outcome is that of Decrypt called with passphrase p
PassphraseUsed(p) == OpenOutcome = Decrypt(pkg.bytes, env.keyPass, p).err

\* C18: the passphrase on the read path is resolved in the order environment
\* variable, passphrase file, none.  When PACKER_KEYPASS is non-empty its
\* value is the passphrase used and the passphrase file plays no part in the
\* outcome; otherwise the content of the KeyPassPath file is used when a path
\* is given; otherwise the empty passphrase is used.
C18_PassphrasePriority ==
    DecryptingReaderMade
        => /\ env.PACKER_KEYPASS # "" => PassphraseUsed(env.PACKER_KEYPASS)
           /\ (env.PACKER_KEYPASS = "" /\ cfg.KeyPassPath # "" /\ env.passFile.exists)
                 => PassphraseUsed(env.passFile.content)
           /\ (env.PACKER_KEYPASS = "" /\ cfg.KeyPassPath = "") => PassphraseUsed("")

\* the passphrase Decrypt is given, when the passphrase file can be opened
GivenPassphrase ==
    IF env.PACKER_KEYPASS # "" THEN env.PACKER_KEYPASS
    ELSE IF cfg.KeyPassPath # "" THEN env.passFile.content
    ELSE ""

\* Decrypt has been called on the ciphertext of the closed writer with the
\* private key ring that matches the recipient key and with the passphrase
\* that protects it
DecryptWithItsPassphrase ==
    /\ DecryptingReaderMade
    /\ w.state["enc"] = "closed"
    /\ w.key = userKey
    /\ cfg.KeyPassPath # "" => env.passFile.exists
    /\ GivenPassphrase = env.keyPass

\* what was read is the beginning of the message, and all of it once the
\* reader is at its end
ReadsBack ==
    /\ pc # "decFailed"
    /\ Len(plain) <= Len(message)
    /\ \A i \in 1..Len(plain) : plain[i] = message[i]
    /\ pc = "decDone" => plain = message

\* C19 as stated: for every message, written to the writer Encrypt returned
\* for a recipient key and the writer closed, Decrypt given the matching
\* private key ring and its passphrase reads back exactly the message.
C19_RoundTripAsStated == DecryptWithItsPassphrase => ReadsBack

\* C19: Encrypt followed by Decrypt is the identity for every message, when
\* Decrypt is given the matching private key ring and its passphrase and the
\* passphrase has no white space at its ends (Decrypt trims the passphrase
\* it is given).
C19_RoundTrip ==
    (DecryptWithItsPassphrase /\ TrimSpace(env.keyPass) = env.keyPass) => ReadsBack

\* a message of two chunks has been read back whole with the key ring
\* protected by a passphrase
C19_Witness ==
    /\ DecryptWithItsPassphrase
    /\ env.keyPass = "secret"
    /\ pc = "decDone"
    /\ Len(message) >= 2
    /\ plain = message

(***************************************************************************)
(* The end of a pack: resources, errors, the output file                   *)
(***************************************************************************)
\* a pack operation has ended, with success or with an error
PackEnded == mode = "pack" /\ pc \in {"packed", "packFailed", "exited"} /\ exitBy # "Verify"

\* the files opened or created so far and not closed since
RECURSIVE openFilesOf(_)
openFilesOf(log) ==
    IF log = <<>> THEN {}
    ELSE LET e == log[Len(log)]
             rest == openFilesOf(SubSeq(log, 1, Len(log) - 1))
         IN  IF e[1] = "close" THEN rest \ {e[2]}
             ELSE IF e[1] \in {"open", "create"} THEN rest \cup {e[2]}
             ELSE rest

\* C21: when a pack operation (NewPackageWriter, Pack, Close, or
\* DataPackage.Pack) ends, with success or with an error returned at any
\* step, every resource it opened has been closed: the output file, the key
\* file, the encryption writer, the gzip and tar writers, the data files.
C21_NoLeak ==
    PackEnded
        => /\ OpenLayers = {}
           /\ w.keyReader # "open"
           /\ openFilesOf(fsLog) = {}

\* the pack operation has returned success to its caller
PackSucceeded == mode = "pack" /\ pc = "packed" /\ err = "nil"

\* C22: an error raised while the package is finished is never swallowed:
\* when closing or flushing a layer fails at the end of a pack, the pack
\* operation reports an error to its caller, and never success.
C22_CloseErrorReported == PackSucceeded => w.closeErr = "nil"

\* the errors of a pack request that cannot be served because of its
\* settings
SettingsErrors ==
    { "bzip2 compression not supported", "unsupported compression method",
      "Either KeyPath or PublicKeyEmail must be specified",
      errExtConflict, errNoTar, errCfgConflict, errNoComp, errNoKey, errNoGpg, errUnexpectedExt }

\* a pack request has been rejected for its settings
PackRejected ==
    /\ mode = "pack"
    /\ pc \in {"exited", "packFailed"}
    /\ err \in SettingsErrors

\* C23: a pack request that cannot be served because of its settings (bzip2
\* requested for writing, an unsupported compression name, a .gpg package
\* name without key material) fails before the output package file is
\* created: a rejected pack leaves no output file behind.
C23_RejectedBeforeIO ==
    PackRejected => ~InList(fsLog, Ev("create", "pkg"))

(***************************************************************************)
(* The order of the checks of Metadata.Check                               *)
(***************************************************************************)
ValidateErrors ==
    { "missing required value", "site does not match expected site",
      "cdm version not found in data models service", "cdm does not match expected model",
      "cdm-version does not match expected model version",
      "table not found in data models service",
      "data-version does not match expected data version" }

\* the first loop of Check has stopped at a record
ValidateStopped ==
    /\ InList(fsLog, Ev("open", "metadata.csv"))
    /\ pc = "mdDone"
    /\ err \in ValidateErrors

\* the record the loop stopped at, as readData read it
StoppedAt ==
    RecordsAsRead[CHOOSE i \in 1..Len(RecordsAsRead) : RuneString(i + 1) = report.line]

\* the version a record is checked under
VersionOf(rm) ==
    IF Get(rm, "cdm") \in DOMAIN m.serviceModels /\ Get(rm, "cdm-version") = ""
    THEN Last(m.serviceModels[Get(rm, "cdm")].sorted)
    ELSE Get(rm, "cdm-version")

\* what a record violates
LacksRequired(rm) == \E f \in RequiredFields : Get(rm, f) = ""
SiteDiffers(rm) == m.site # "" /\ Get(rm, "organization") # m.site
ModelDiffers(rm) == m.model # "" /\ Get(rm, "cdm") # m.model
VersionDiffers(rm) == m.modelVersion # "" /\ VersionOf(rm) # m.modelVersion
DataVersionDiffers(rm) ==
    m.dataVersion # "" /\ Get(rm, "data-version") \notin {"", m.dataVersion}
NotInCatalog(rm) ==
    \/ Get(rm, "cdm") \notin DOMAIN m.serviceModels
    \/ ~InList(m.serviceModels[Get(rm, "cdm")].sorted, VersionOf(rm))
NoSuchTable(rm) ==
    ~InList(TablesOf(m.serviceModels, Get(rm, "cdm"), VersionOf(rm)), Get(rm, "table"))

Inconsistent(rm) ==
    SiteDiffers(rm) \/ ModelDiffers(rm) \/ VersionDiffers(rm) \/ DataVersionDiffers(rm)

Verifying == InList(fsLog, Ev("open", "metadata.csv"))

\* a record passes every check of the first loop
PassesStructure(rm) ==
    /\ ~LacksRequired(rm)
    /\ ~SiteDiffers(rm)
    /\ ~NotInCatalog(rm)
    /\ ~ModelDiffers(rm)
    /\ ~VersionDiffers(rm)
    /\ ~NoSuchTable(rm)
    /\ ~DataVersionDiffers(rm)

\* C25: in Check no data file is opened and no digest is computed until
\* every record has passed all the structural checks: a check that stops at
\* a structural error has opened no data file, and when a data file has been
\* opened every record of the manifest passes the structural checks.
C25_StructureFirst ==
    /\ ValidateStopped => DataOpens = {}
    /\ (Verifying /\ DataOpens # {})
          => \A i \in 1..Len(RecordsAsRead) : PassesStructure(RecordsAsRead[i])

\* Check has stopped at a structural error in the last of two records, the
\* first record carrying a checksum that is not the one of its file, and no
\* data file has been opened
C25_Witness ==
    /\ ValidateStopped
    /\ Len(RecordsAsRead) = 2
    /\ report.line = RuneString(3)
    /\ LET rm == RecordsAsRead[1]
       IN  /\ HasFile(data, Get(rm, "filename"))
           /\ Get(rm, "checksum") # Sum(FileNamed(data, Get(rm, "filename")).content)
    /\ DataOpens = {}

(***************************************************************************)
(* Encryption of the package the writer produces                           *)
(***************************************************************************)
\* Verify has accepted a configuration whose package name carries .gpg, and
\* NewPackageWriter and Pack have written the package
AcceptedGpgPacked ==
    /\ mode = "pack"
    /\ w.kind = "PackageWriter"
    /\ pc = "packed"
    /\ err = "nil"
    /\ cfg.PackagePath # <<>>
    /\ HasGpg
    /\ cfg.KeyPath # ""

\* the package is an OpenPGP message to that key
EncryptedTo(bytes, key) == bytes # <<>> /\ bytes[1] = encHdr(key)

\* C26: whenever Config.Verify accepts a configuration whose package name
\* carries .gpg, the package written by NewPackageWriter and Pack is
\* encrypted with the declared key, for every compression method Verify can
\* resolve, zip included.
C26_AcceptedIsEncrypted ==
    AcceptedGpgPacked => (WriterEncrypts /\ EncryptedTo(pkg.bytes, userKey))

(***************************************************************************)
(* What a failed Verify leaves in the Config                               *)
(***************************************************************************)
\* C27: a failed Config.Verify leaves the Config unchanged: on any Verify
\* error, Comp and every other field have the values they had before the
\* call.
C27_FailedVerifyKeepsConfig ==
    [][(pc = "set" /\ pc' = "verified" /\ err' # "nil") => cfg' = cfg]_vars

(***************************************************************************)
(* Verify-only runs                                                        *)
(***************************************************************************)
\* a run of CreateOrVerifyMetadataFile with verifyOnly set has ended
VerifyOnlyEnded == flags.verifyOnly /\ pc = "mdDone"

\* C28: verify-only mode has no side effect on the data directory:
\* CreateOrVerifyMetadataFile with verifyOnly set leaves metadata.csv and the
\* data files as they were, also when there is no metadata.csv, which it only
\* reports as not found; a second verify-only run reports the same error.
C28_VerifyOnlyNoEffect ==
    /\ VerifyOnlyEnded => (manifest = before.manifest /\ data = before.data)
    /\ (VerifyOnlyEnded /\ Len(results) = 1) => err = results[1].err

(***************************************************************************)
(* Where Unpack writes                                                     *)
(***************************************************************************)
\* the directories Unpack has made with MkdirAll, each the directory of a
\* file it then created
MadeDirs == { fsLog[i][2] : i \in { j \in 1..Len(fsLog) : fsLog[j][1] = "mkdir" } }

\* a path that is the directory dir or lies below it
Under(path, dir) == Len(path) >= 1 /\ path[1] = dir

\* C29: Unpack stays inside its target: every file and every directory it
\* creates lies under the configured data directory, for every entry name,
\* names with `..` segments and absolute names included.
C29_StaysInside ==
    mode = "unpack" => \A d \in MadeDirs : Under(d, cfg.DataDirPath)

(***************************************************************************)
(* How many files are open at once                                         *)
(***************************************************************************)
\* the names with an event of this kind in the log that are not closed by a
\* later event
RECURSIVE heldOpen(_, _)
heldOpen(log, kind) ==
    IF log = <<>> THEN {}
    ELSE LET e == log[Len(log)]
             rest == heldOpen(SubSeq(log, 1, Len(log) - 1), kind)
         IN  IF e[1] = "close" THEN rest \ {e[2]}
             ELSE IF e[1] = kind /\ e[2] \notin {"pkg", "key", "metadata.csv"}
             THEN rest \cup {e[2]}
             ELSE rest

\* at every point of the log at most one file of this kind is open
AtMostOneOpen(kind) ==
    \A k \in 0..Len(fsLog) : Cardinality(heldOpen(SubSeq(fsLog, 1, k), kind)) <= 1

\* C30: bounded open files: in Unpack at most one extracted output file is
\* open at any point, file k being closed before file k+1 is opened, and in
\* the checksum pass of Check at most one data file is open at any point.
C30_OneOpenFile ==
    /\ mode = "unpack" => AtMostOneOpen("create")
    /\ pc \in {"mdSums", "mdDone"} => AtMostOneOpen("open")

====
